---- MODULE Spec2Model ----
(***************************************************************************)
(* A model of the SVG rasteriser: the document model (parser.py,           *)
(* svg_state.py), attribute inheritance, validation, the renderer's tree   *)
(* walk with its context stack (renderer.py, drawing_context.py) and the   *)
(* compositing arithmetic (colors.py).                                     *)
(*                                                                         *)
(* Python objects are modelled by value: the node tree is an arena (a      *)
(* sequence of node records addressed by index, 0 standing for None), a    *)
(* local variable holding a reference to a DrawingContext is the index of  *)
(* that context in context_stack.                                          *)
(***************************************************************************)
EXTENDS Integers, Sequences, FiniteSets, TLC

VARIABLES
    entries,             \* the fragment list handed to SVGState(entries)
    pos,                 \* how many fragments the shared iterator has consumed
    metadata,            \* SVGState.metadata
    nodes,               \* the arena of Node objects
    svg_tree,            \* SVGState.svg_tree (index into nodes, 0 = None)
    r,                   \* the tree cursor of parse_svg_contents (0 = None)
    viewport_width,      \* SVGState.viewport_width (NoVal = None)
    viewport_height,     \* SVGState.viewport_height
    viewbox,             \* SVGState.viewbox (<<>> = None)
    viewbox_transform,   \* SVGState.viewbox_scale_x/_y, viewbox_offset_x/_y
    validation_errors,   \* SVGState.validation_errors
    validation_warnings, \* SVGState.validation_warnings
    params,              \* the arguments of Renderer(...): width, height (0 = None),
                         \* background_color, anti_aliasing
    pass,                \* which of the two render passes is running
    width,               \* Renderer.width
    height,              \* Renderer.height
    buffer,              \* Renderer.buffer: pixel <<x, y>> -> <<r, g, b, a>>
    context_stack,       \* Renderer.context_stack
    frames,              \* the activations of _render_node, the innermost last
    entered,             \* history: the context each _render_node call found
    first_buffer,        \* the buffer the first pass produced
    foreground,          \* blend_colors: its first argument
    background,          \* blend_colors: its second argument
    blended,             \* blend_colors: its result (<<>> before the call)
    callee,              \* a function called on its own: its name ("" = none)
    args,                \* the arguments of that call
    result,              \* what the call returned (<<>> before it returns)
    phase                \* where the pipeline stands

docVars == <<entries, pos, metadata, nodes, svg_tree, r>>

stateVars == <<viewport_width, viewport_height, viewbox, viewbox_transform,
               validation_errors, validation_warnings>>

renderVars == <<params, pass, width, height, buffer, context_stack, frames, entered,
                first_buffer>>

blendVars == <<foreground, background, blended>>

callVars == <<callee, args, result>>

\* the variables of the functions that are called on their own
pureVars == <<blendVars, callVars>>

\* everything SVGState does not touch
afterStateVars == <<renderVars, pureVars>>

\* everything parse_svg_contents does not touch
afterParseVars == <<stateVars, afterStateVars>>

vars == <<docVars, stateVars, renderVars, blendVars, callVars, phase>>

None == 0

(***************************************************************************)
(* Finite maps (Python dicts).                                             *)
(***************************************************************************)
EmptyMap == [k \in {} |-> 0]

Has(m, k) == k \in DOMAIN m

Put(m, k, v) == [x \in (DOMAIN m) \cup {k} |-> IF x = k THEN v ELSE m[x]]

Get(m, k, default) == IF k \in DOMAIN m THEN m[k] ELSE default

(***************************************************************************)
(* Numbers.  Python floats are modelled as exact rationals <<n, d>> (d > 0, *)
(* in lowest terms).  The documents of the model only use values on which   *)
(* the float operations of the code are exact (small integers, halves and   *)
(* quarters), so the two agree; the one place where rounding decides the    *)
(* result, the division by 255.0 of blend_colors, is modelled bit by bit    *)
(* further down.                                                            *)
(***************************************************************************)
RECURSIVE GCD(_, _)
GCD(a, b) == IF b = 0 THEN a ELSE GCD(b, a % b)

Abs(x) == IF x < 0 THEN -x ELSE x

Min(a, b) == IF a <= b THEN a ELSE b

Max(a, b) == IF a >= b THEN a ELSE b

Rat(n, d) ==
    LET s == IF d < 0 THEN -1 ELSE 1
        g == GCD(Abs(n), Abs(d))
    IN  <<(s * n) \div g, (s * d) \div g>>

R(i) == <<i, 1>>

\* the sum over the least common denominator
RAdd(x, y) ==
    Rat(x[1] * (y[2] \div GCD(x[2], y[2])) + y[1] * (x[2] \div GCD(x[2], y[2])),
        x[2] * (y[2] \div GCD(x[2], y[2])))

RSub(x, y) == RAdd(x, <<-y[1], y[2]>>)

RMul(x, y) == Rat(x[1] * y[1], x[2] * y[2])

RDiv(x, y) == Rat(x[1] * y[2], x[2] * y[1])

RNeg(x) == <<-x[1], x[2]>>

RLt(x, y) == x[1] * y[2] < y[1] * x[2]

RLe(x, y) == x[1] * y[2] <= y[1] * x[2]

RMin(x, y) == IF RLe(x, y) THEN x ELSE y

RMax(x, y) == IF RLe(x, y) THEN y ELSE x

RAbs(x) == <<Abs(x[1]), x[2]>>

\* int(x): truncation toward zero
RInt(x) == IF x[1] >= 0 THEN x[1] \div x[2] ELSE -((-x[1]) \div x[2])

\* round(x): Python 3 rounds a half to the even neighbour
RRound(x) ==
    LET f == x[1] \div x[2]
        rem == x[1] - f * x[2]
    IN  IF 2 * rem < x[2] THEN f
        ELSE IF 2 * rem > x[2] THEN f + 1
        ELSE IF f % 2 = 0 THEN f ELSE f + 1

(***************************************************************************)
(* parser.py: fragments.  A fragment is the text of one "<...>" match; the *)
(* model keeps what the three classifiers read from it: whether it starts  *)
(* with "</", whether it ends with "/>", its first word and its            *)
(* key="value" pairs.                                                      *)
(***************************************************************************)
Frag(close, selfterm, tag, attrs) ==
    [close |-> close, selfterm |-> selfterm, tag |-> tag, attrs |-> attrs]

Open(tag, attrs) == Frag(FALSE, FALSE, tag, attrs)

Self(tag, attrs) == Frag(FALSE, TRUE, tag, attrs)

Close(tag) == Frag(TRUE, FALSE, tag, EmptyMap)

is_self_terminating(svg_value) == svg_value.selfterm

is_terminator(svg_value) == svg_value.close

get_tag(svg_value) == svg_value.tag

\* parse_attributes returns {} for a fragment that starts with "</"
parse_attributes(element) == IF element.close THEN EmptyMap ELSE element.attrs

\* Node.__init__
Node(element) ==
    [tag |-> get_tag(element), attributes |-> parse_attributes(element),
     children |-> <<>>, parent |-> None]

compare_tag(n, element) == nodes[n].tag = get_tag(element)

\* the new node put before its siblings in the parent's children
add_node_child_first(ns, parentIdx, new_node) ==
    Append([ns EXCEPT ![parentIdx].children = <<Len(ns) + 1>> \o @],
           [new_node EXCEPT !.parent = parentIdx])

\* Node.add_child / Node.add_node_child: the new node gets the next arena
\* index, its parent is set and it is appended to the parent's children
add_node_child(ns, parentIdx, new_node) ==
    LET idx == Len(ns) + 1
        withChild == [ns EXCEPT ![parentIdx].children = Append(@, idx)]
    IN  Append(withChild, [new_node EXCEPT !.parent = parentIdx])

\* Node.get_inherited_attributes (the set literal)
inherited_attrs ==
    {"fill", "stroke", "stroke-width", "stroke-linecap", "stroke-linejoin",
     "stroke-miterlimit", "stroke-dasharray", "stroke-dashoffset",
     "opacity", "fill-opacity", "stroke-opacity",
     "font-family", "font-size", "font-weight", "font-style",
     "text-anchor", "color", "visibility", "display",
     "clip-path", "mask", "filter"}

\* MergeFrom without the test "attr_name in inherited_attrs": every attribute
\* of an ancestor would be inherited
MergeFrom_all_attributes(ns, merged, current) ==
    LET add == {a \in DOMAIN ns[current].attributes : a \notin DOMAIN merged}
    IN  [a \in (DOMAIN merged) \cup add |->
            IF a \in DOMAIN merged THEN merged[a] ELSE ns[current].attributes[a]]

\* one pass of the while loop of get_inherited_attributes: the attributes of
\* `current` that are inheritable and not yet in merged are added
MergeFrom(ns, merged, current) ==
    LET add == {a \in DOMAIN ns[current].attributes :
                    a \in inherited_attrs /\ a \notin DOMAIN merged}
    IN  [a \in (DOMAIN merged) \cup add |->
            IF a \in DOMAIN merged THEN merged[a] ELSE ns[current].attributes[a]]

RECURSIVE MergeUp(_, _, _)
MergeUp(ns, merged, current) ==
    IF current = None THEN merged
    ELSE MergeUp(ns, MergeFrom(ns, merged, current), ns[current].parent)

\* Node.get_inherited_attributes
get_inherited_attributes(ns, n) == MergeUp(ns, ns[n].attributes, ns[n].parent)

\* Node.get_attribute
get_attribute(ns, n, attr_name, default, use_inheritance) ==
    IF use_inheritance
    THEN Get(get_inherited_attributes(ns, n), attr_name, default)
    ELSE Get(ns[n].attributes, attr_name, default)

(***************************************************************************)
(* geometry.py.  A textual attribute value is a sequence of one-character  *)
(* strings.  An optional float that is None is NoVal; a call that ended in *)
(* an exception is Raised.                                                 *)
(***************************************************************************)
NoVal == <<0, 0>>

Raised == <<1, 0>>

IsNum(x) == x[2] # 0

Digits == {"0", "1", "2", "3", "4", "5", "6", "7", "8", "9"}

DigitVal(c) ==
    CASE c = "0" -> 0 [] c = "1" -> 1 [] c = "2" -> 2 [] c = "3" -> 3
      [] c = "4" -> 4 [] c = "5" -> 5 [] c = "6" -> 6 [] c = "7" -> 7
      [] c = "8" -> 8 [] c = "9" -> 9

LowerLetters ==
    {"a", "b", "c", "d", "e", "f", "g", "h", "i", "k", "l", "m", "n", "o", "p", "q",
     "r", "s", "t", "u", "v", "w", "x", "y", "z"}

UpperLetters == {"A", "C", "E", "F", "H", "L", "M", "P", "Q", "R", "S", "T", "V", "X", "Y", "Z"}

\* str.lower() on one character
LowerChar(c) ==
    CASE c = "A" -> "a" [] c = "C" -> "c" [] c = "E" -> "e" [] c = "F" -> "f"
      [] c = "H" -> "h"
      [] c = "L" -> "l" [] c = "M" -> "m" [] c = "P" -> "p" [] c = "Q" -> "q"
      [] c = "R" -> "r" [] c = "S" -> "s" [] c = "T" -> "t" [] c = "V" -> "v" [] c = "X" -> "x"
      [] c = "Y" -> "y" [] c = "Z" -> "z" [] OTHER -> c

Lower(str) == [i \in 1..Len(str) |-> LowerChar(str[i])]

\* the length of the longest run of characters of S that starts at index i
RECURSIVE RunLen(_, _, _)
RunLen(str, i, S) ==
    IF i <= Len(str) /\ str[i] \in S THEN 1 + RunLen(str, i + 1, S) ELSE 0

RECURSIVE DigitsValue(_, _, _)
DigitsValue(str, i, n) ==
    IF n = 0 THEN 0 ELSE DigitsValue(str, i, n - 1) * 10 + DigitVal(str[i + n - 1])

RECURSIVE Pow10(_)
Pow10(n) == IF n = 0 THEN 1 ELSE 10 * Pow10(n - 1)

\* number_pattern of parse_number_with_unit, on an already stripped value:
\* an optional sign, digits with an optional fraction (or a fraction alone),
\* then only unit characters up to the end.  The values of the model hold no
\* exponent part and no blank.  The match is computed left to right: i0 is the
\* index after the sign, n1 the number of integer digits, dot whether a "."
\* follows, i1 the index after it, n2 the number of fraction digits.
\* [matched, num, unit]
MatchEnd(str, i0, n1, dot, i1, n2) ==
    [matched |-> (n1 >= 1 \/ (dot /\ n2 >= 1))
                 /\ \A i \in (i1 + n2)..Len(str) :
                        str[i] \in LowerLetters \cup UpperLetters \cup {"%"},
     num |-> Rat((IF i0 = 2 /\ str[1] = "-" THEN -1 ELSE 1)
                 * (DigitsValue(str, i0, n1) * Pow10(n2) + DigitsValue(str, i1, n2)),
                 Pow10(n2)),
     unit |-> SubSeq(str, i1 + n2, Len(str))]

MatchFraction(str, i0, n1, dot, i1) ==
    MatchEnd(str, i0, n1, dot, i1, IF dot THEN RunLen(str, i1, Digits) ELSE 0)

MatchDot(str, i0, n1, dot) ==
    MatchFraction(str, i0, n1, dot, IF dot THEN i0 + n1 + 1 ELSE i0 + n1)

MatchDigits(str, i0, n1) ==
    MatchDot(str, i0, n1, i0 + n1 <= Len(str) /\ str[i0 + n1] = ".")

MatchSign(str, i0) == MatchDigits(str, i0, RunLen(str, i0, Digits))

MatchNumber(str) ==
    MatchSign(str, IF Len(str) >= 1 /\ str[1] \in {"-", "+"} THEN 2 ELSE 1)

\* parse_number_with_unit on the outcome m of the pattern: the empty value and
\* a value the pattern does not match give (0.0, ""); float(value) of the
\* fallback raises ValueError on every unmatched value of the model (none
\* spells nan or inf)
ParsedOrZero(value, m) ==
    IF value = <<>> \/ ~m.matched THEN [num |-> R(0), unit |-> <<>>]
    ELSE [num |-> m.num, unit |-> m.unit]

parse_number_with_unit(value) == ParsedOrZero(value, MatchNumber(value))

FloatOrRaised(text, m) ==
    IF text # <<>> /\ m.matched /\ m.unit = <<>> THEN m.num ELSE Raised

\* float(text): ValueError (Raised) unless text is a plain number
float_of(text) == FloatOrRaised(text, MatchNumber(text))

INCHES_TO_PX == R(96)

CM_TO_PX == RDiv(INCHES_TO_PX, Rat(254, 100))

MM_TO_PX == RDiv(CM_TO_PX, R(10))

PT_TO_PX == RDiv(INCHES_TO_PX, R(72))

PC_TO_PX == RMul(PT_TO_PX, R(12))

\* str.replace("ex", "em")
RECURSIVE ReplaceExEm(_)
ReplaceExEm(str) ==
    IF Len(str) < 2 THEN str
    ELSE IF str[1] = "e" /\ str[2] = "x"
         THEN <<"e", "m">> \o ReplaceExEm(SubSeq(str, 3, Len(str)))
         ELSE <<str[1]>> \o ReplaceExEm(SubSeq(str, 2, Len(str)))

\* the interpreter's recursion limit (sys.getrecursionlimit() is 1000), scaled
RecursionLimit == 6

\* num_value * factor, or the exception the factor stands for
Scaled(num_value, factor) ==
    IF IsNum(factor) THEN RMul(num_value, factor) ELSE Raised

RECURSIVE normalize_unit_at(_, _, _, _, _, _, _)

\* the body of normalize_unit after parse_number_with_unit; unit is already
\* lower-cased.  The factor num_value is multiplied by is chosen by the unit;
\* the ex branch normalises the value with "ex" replaced by "em" and halves
\* it.  The unit rad (math.degrees) is outside the values of the model.
NormalizeParsed(value, num_value, unit, unit_type, viewport_w, viewport_h, font_size, parent_font_size, depth) ==
    IF unit = <<"e", "x">>
    THEN Scaled(Rat(1, 2),
                normalize_unit_at(ReplaceExEm(value), unit_type, viewport_w, viewport_h,
                                  font_size, parent_font_size, depth + 1))
    ELSE Scaled(num_value,
            IF unit = <<"p", "t">> THEN PT_TO_PX
            ELSE IF unit = <<"p", "c">> THEN PC_TO_PX
            ELSE IF unit = <<"i", "n">> THEN INCHES_TO_PX
            ELSE IF unit = <<"c", "m">> THEN CM_TO_PX
            ELSE IF unit = <<"m", "m">> THEN MM_TO_PX
            ELSE IF unit = <<"e", "m">> THEN
                (IF IsNum(font_size) THEN font_size
                 ELSE IF IsNum(parent_font_size) THEN parent_font_size
                 ELSE R(16))
            ELSE IF unit = <<"%">> THEN
                (IF unit_type = "angle" THEN Rat(360, 100)
                 ELSE IF IsNum(viewport_w) /\ IsNum(viewport_h)
                      THEN RDiv(RAdd(viewport_w, viewport_h), R(200))
                      ELSE R(1))
            ELSE IF unit = <<"g", "r", "a", "d">> THEN Rat(9, 10)
            ELSE IF unit = <<"t", "u", "r", "n">> THEN R(360)
            ELSE R(1))

NormalizeRecord(value, p, unit_type, viewport_w, viewport_h, font_size, parent_font_size, depth) ==
    NormalizeParsed(value, p.num, Lower(p.unit), unit_type, viewport_w, viewport_h,
                    font_size, parent_font_size, depth)

\* normalize_unit; depth counts the nested calls of the ex branch, and a call
\* deeper than the recursion limit raises RecursionError
normalize_unit_at(value, unit_type, viewport_w, viewport_h, font_size, parent_font_size, depth) ==
    IF depth > RecursionLimit THEN Raised
    ELSE NormalizeRecord(value, parse_number_with_unit(value), unit_type, viewport_w,
                         viewport_h, font_size, parent_font_size, depth)

normalize_unit(value, unit_type, viewport_w, viewport_h) ==
    normalize_unit_at(value, unit_type, viewport_w, viewport_h, NoVal, NoVal, 1)

\* get_normalized_attribute
get_normalized_attribute(ns, n, attr_name, default, viewport_w, viewport_h) ==
    LET attrs == get_inherited_attributes(ns, n)
    IN  IF ~Has(attrs, attr_name) THEN default
        ELSE normalize_unit(attrs[attr_name], "length", viewport_w, viewport_h)

(***************************************************************************)
(* colors.py: blend_colors.  Its arithmetic is IEEE double arithmetic, and *)
(* the division by 255.0 is inexact, so the floats of blend_colors are     *)
(* modelled bit for bit.  A float here is a non-negative fixed-point       *)
(* number below 4096 with 72 fraction bits, held as NLimbs digits in base  *)
(* LimbBase, the most significant first (the first digit is the integer    *)
(* part); every float operation computes the exact result and rounds it to *)
(* 53 significant bits, to nearest, ties to even.  All exact results of    *)
(* blend_colors over an opaque background are multiples of 2^-72.          *)
(***************************************************************************)
LimbBits == 12

LimbBase == 4096

NLimbs == 7

FZero == [j \in 1..NLimbs |-> 0]

\* float(n) for an integer 0 <= n < LimbBase
FInt(n) == [j \in 1..NLimbs |-> IF j = 1 THEN n ELSE 0]

\* the digits 1..i of x + y, given the carry into digit i
RECURSIVE NatAddFrom(_, _, _, _)
NatAddFrom(x, y, i, carry) ==
    IF i = 0 THEN <<>>
    ELSE Append(NatAddFrom(x, y, i - 1, (x[i] + y[i] + carry) \div LimbBase),
                (x[i] + y[i] + carry) % LimbBase)

NatAdd(x, y) == NatAddFrom(x, y, NLimbs, 0)

\* the digits 1..i of x - y (x >= y), given the borrow from digit i
RECURSIVE NatSubFrom(_, _, _, _)
NatSubFrom(x, y, i, borrow) ==
    IF i = 0 THEN <<>>
    ELSE Append(NatSubFrom(x, y, i - 1, IF x[i] - y[i] - borrow < 0 THEN 1 ELSE 0),
                (x[i] - y[i] - borrow) % LimbBase)

NatSub(x, y) == NatSubFrom(x, y, NLimbs, 0)

\* the digits 1..i of x * n for an integer 0 <= n < 256
RECURSIVE NatMulFrom(_, _, _, _)
NatMulFrom(x, n, i, carry) ==
    IF i = 0 THEN <<>>
    ELSE Append(NatMulFrom(x, n, i - 1, (x[i] * n + carry) \div LimbBase),
                (x[i] * n + carry) % LimbBase)

NatMul(x, n) == NatMulFrom(x, n, NLimbs, 0)

\* the remainder of the digits 1..i of x divided by the integer d
RECURSIVE NatRem(_, _, _)
NatRem(x, d, i) == IF i = 0 THEN 0 ELSE (NatRem(x, d, i - 1) * LimbBase + x[i]) % d

\* the quotient of x divided by the integer 0 < d < 256, rounded down
NatDiv(x, d) ==
    [j \in 1..NLimbs |-> (NatRem(x, d, j - 1) * LimbBase + x[j]) \div d]

NatLess(x, y) ==
    \E j \in 1..NLimbs : x[j] < y[j] /\ \A i \in 1..(j - 1) : x[i] = y[i]

\* the number of bits of an integer 0 <= n < LimbBase
SmallBitLen(n) == CHOOSE k \in 0..LimbBits : n < 2^k /\ (k = 0 \/ n >= 2^(k - 1))

\* the index of the first digit of x that is not 0
TopLimb(x) == CHOOSE j \in 1..NLimbs : x[j] # 0 /\ \A i \in 1..(j - 1) : x[i] = 0

BitLenAt(x, j) == (NLimbs - j) * LimbBits + SmallBitLen(x[j])

\* the number of significant bits of x
BitLen(x) == IF x = FZero THEN 0 ELSE BitLenAt(x, TopLimb(x))

\* 2^k as a number
Pow2Nat(k) ==
    [j \in 1..NLimbs |->
        IF (NLimbs - j) * LimbBits <= k /\ k < (NLimbs - j + 1) * LimbBits
        THEN 2^(k - (NLimbs - j) * LimbBits) ELSE 0]

\* x without its k lowest bits
HighBits(x, k) ==
    [j \in 1..NLimbs |->
        IF k <= (NLimbs - j) * LimbBits THEN x[j]
        ELSE IF k >= (NLimbs - j + 1) * LimbBits THEN 0
        ELSE x[j] - (x[j] % 2^(k - (NLimbs - j) * LimbBits))]

\* bit k of x
BitAt(x, k) == (x[NLimbs - (k \div LimbBits)] \div 2^(k % LimbBits)) % 2

\* whether rounding x at bit k rounds up: low is what is cut off, half is
\* 2^(k-1), inexact tells that the exact value lies above x
RoundsUp(x, k, low, half, inexact) ==
    NatLess(half, low) \/ (low = half /\ (inexact \/ BitAt(x, k) = 1))

\* x rounded to a multiple of 2^k
RoundAt(x, k, inexact) ==
    IF k <= 0 THEN x
    ELSE IF RoundsUp(x, k, NatSub(x, HighBits(x, k)), Pow2Nat(k - 1), inexact)
         THEN NatAdd(HighBits(x, k), Pow2Nat(k))
         ELSE HighBits(x, k)

\* x rounded to 53 significant bits
Round53(x, inexact) == RoundAt(x, BitLen(x) - 53, inexact)

\* x + y, x - y (x >= y), n * x and n / d in double arithmetic
FAdd(x, y) == Round53(NatAdd(x, y), FALSE)

FSub(x, y) == Round53(NatSub(x, y), FALSE)

FMul(n, x) == Round53(NatMul(x, n), FALSE)

FDiv(n, d) == Round53(NatDiv(FInt(n), d), NatRem(FInt(n), d, NLimbs) # 0)

\* int(x)
FTrunc(x) == x[1]

\* one colour channel of the branch "bg_alpha >= 1.0"
BlendChannel(fg_c, bg_c, fg_alpha, one_minus) ==
    FTrunc(FAdd(FMul(fg_c, fg_alpha), FMul(bg_c, one_minus)))

\* blend_colors once fg_alpha, bg_alpha, 1 - fg_alpha and out_alpha are
\* computed.  The last branch of the code, a background that is neither
\* opaque nor, with the foreground, fully transparent, is outside the model:
\* the buffer is opaque from its construction on.
BlendWith(fg, bg, fg_alpha, bg_alpha, one_minus, out_alpha) ==
    CASE out_alpha = FZero -> <<0, 0, 0, 0>>
      [] out_alpha # FZero /\ FTrunc(bg_alpha) >= 1 ->
            <<BlendChannel(fg[1], bg[1], fg_alpha, one_minus),
              BlendChannel(fg[2], bg[2], fg_alpha, one_minus),
              BlendChannel(fg[3], bg[3], fg_alpha, one_minus),
              FTrunc(FMul(255, out_alpha))>>

\* out_alpha = fg_alpha + bg_alpha * (1 - fg_alpha), for bg_alpha 0.0 or 1.0
OutAlpha(fg_alpha, bg_alpha, one_minus) ==
    FAdd(fg_alpha, CASE bg_alpha = FZero -> FZero [] bg_alpha = FInt(1) -> one_minus)

BlendAlphas(fg, bg, fg_alpha, bg_alpha, one_minus) ==
    BlendWith(fg, bg, fg_alpha, bg_alpha, one_minus,
              OutAlpha(fg_alpha, bg_alpha, one_minus))

BlendFrom(fg, bg, fg_alpha) ==
    BlendAlphas(fg, bg, fg_alpha, FDiv(bg[4], 255), FSub(FInt(1), fg_alpha))

\* blend_colors
blend_colors(fg, bg) == BlendFrom(fg, bg, FDiv(fg[4], 255))

(***************************************************************************)
(* svg_state.py: SVGState.parse_svg_contents, one action per iteration of  *)
(* its two loops over the shared iterator.                                 *)
(***************************************************************************)
NextEntry == entries[pos + 1]

\* first loop, a fragment before the root: metadata[tag] = svg_element
SkipProlog ==
    /\ phase = "prolog"
    /\ pos < Len(entries)
    /\ get_tag(NextEntry) # "svg"
    /\ metadata' = Put(metadata, get_tag(NextEntry), NextEntry)
    /\ pos' = pos + 1
    /\ UNCHANGED <<entries, nodes, svg_tree, r, phase, afterParseVars>>

\* first loop, the first fragment whose tag is svg becomes the root
FindRoot ==
    /\ phase = "prolog"
    /\ pos < Len(entries)
    /\ get_tag(NextEntry) = "svg"
    /\ nodes' = <<Node(NextEntry)>>
    /\ svg_tree' = 1
    /\ r' = 1
    /\ pos' = pos + 1
    /\ phase' = "body"
    /\ UNCHANGED <<entries, metadata, afterParseVars>>

\* the iterator ran out before a root was found: r is None, return
NoRoot ==
    /\ phase = "prolog"
    /\ pos = Len(entries)
    /\ phase' = "parsed"
    /\ UNCHANGED <<entries, pos, metadata, nodes, svg_tree, r, afterParseVars>>

\* second loop: a closing fragment whose tag is the cursor's tag
CloseElement ==
    /\ phase = "body"
    /\ pos < Len(entries)
    /\ r # None
    /\ is_terminator(NextEntry) /\ compare_tag(r, NextEntry)
    /\ r' = nodes[r].parent
    /\ pos' = pos + 1
    /\ UNCHANGED <<entries, metadata, nodes, svg_tree, phase, afterParseVars>>

\* second loop: r.add_child(svg_element), the cursor stays
AddSelfClosing ==
    /\ phase = "body"
    /\ pos < Len(entries)
    /\ r # None
    /\ ~(is_terminator(NextEntry) /\ compare_tag(r, NextEntry))
    /\ is_self_terminating(NextEntry)
    /\ nodes' = add_node_child(nodes, r, Node(NextEntry))
    /\ pos' = pos + 1
    /\ UNCHANGED <<entries, metadata, svg_tree, r, phase, afterParseVars>>

\* second loop: the else branch, the new node becomes the cursor
AddOpen ==
    /\ phase = "body"
    /\ pos < Len(entries)
    /\ r # None
    /\ ~(is_terminator(NextEntry) /\ compare_tag(r, NextEntry))
    /\ ~is_self_terminating(NextEntry)
    /\ nodes' = add_node_child(nodes, r, Node(NextEntry))
    /\ r' = Len(nodes) + 1
    /\ pos' = pos + 1
    /\ UNCHANGED <<entries, metadata, svg_tree, phase, afterParseVars>>

\* second loop: "if r is None: return" after the root was closed
RootClosed ==
    /\ phase = "body"
    /\ pos < Len(entries)
    /\ r = None
    /\ pos' = pos + 1
    /\ phase' = "parsed"
    /\ UNCHANGED <<entries, metadata, nodes, svg_tree, r, afterParseVars>>

\* second loop: the iterator is exhausted
EndOfEntries ==
    /\ phase = "body"
    /\ pos = Len(entries)
    /\ phase' = "parsed"
    /\ UNCHANGED <<entries, pos, metadata, nodes, svg_tree, r, afterParseVars>>

ParseStep ==
    \/ SkipProlog
    \/ FindRoot
    \/ NoRoot
    \/ CloseElement
    \/ AddSelfClosing
    \/ AddOpen
    \/ RootClosed
    \/ EndOfEntries

\* the defaults of the arguments of Renderer.__init__ (0 stands for None)
DefaultParams ==
    [width |-> 0, height |-> 0, background_color |-> <<255, 255, 255>>,
     anti_aliasing |-> FALSE]

\* no Renderer has been constructed yet; p are the arguments it will get
IdleRender(p) ==
    /\ params = p
    /\ pass = 1
    /\ width = 0
    /\ height = 0
    /\ buffer = <<>>
    /\ context_stack = <<>>
    /\ frames = <<>>
    /\ entered = <<>>
    /\ first_buffer = <<>>

\* blend_colors is not being called
IdleBlend ==
    /\ foreground = <<>>
    /\ background = <<>>
    /\ blended = <<>>

\* no function is being called on its own
IdleCall ==
    /\ callee = ""
    /\ args = <<>>
    /\ result = <<>>

\* SVGState.__init__ up to the call of parse_svg_contents
InitState(es) ==
    /\ entries = es
    /\ pos = 0
    /\ metadata = EmptyMap
    /\ nodes = <<>>
    /\ svg_tree = None
    /\ r = None
    /\ viewport_width = NoVal
    /\ viewport_height = NoVal
    /\ viewbox = <<>>
    /\ viewbox_transform = <<>>
    /\ validation_errors = <<>>
    /\ validation_warnings = <<>>
    /\ phase = "prolog"

(***************************************************************************)
(* svg_state.py: the viewport, the viewBox mapping and validation.         *)
(***************************************************************************)
\* whether sub occurs in str ("sub in str")
Contains(str, sub) ==
    \E i \in 1..(Len(str) - Len(sub) + 1) : SubSeq(str, i, i + Len(sub) - 1) = sub

\* the viewBox attribute after strip().split(), then float() of its first four
\* parts: <<>> (None) when there are fewer than four parts or one is no number
ParseViewBox(parts) ==
    IF Len(parts) < 4 THEN <<>>
    ELSE LET fs == [i \in 1..4 |-> float_of(parts[i])]
         IN  IF \E i \in 1..4 : ~IsNum(fs[i]) THEN <<>> ELSE fs

\* the default of get_attribute('preserveAspectRatio', 'xMidYMid meet'), split
DefaultPreserveAspect ==
    <<<<"x", "M", "i", "d", "Y", "M", "i", "d">>, <<"m", "e", "e", "t">>>>

\* _calculate_viewbox_transform taking the branch of preserveAspectRatio "none"
\* for every document: each axis has its own scale and nothing is centred
calculate_viewbox_transform_stretched(ns, root, vw, vh, vb) ==
    IF vb = <<>> THEN
        [scale_x |-> R(1), scale_y |-> R(1), offset_x |-> R(0), offset_y |-> R(0)]
    ELSE
        [scale_x |-> IF RLt(R(0), vb[3]) THEN RDiv(vw, vb[3]) ELSE R(1),
         scale_y |-> IF RLt(R(0), vb[4]) THEN RDiv(vh, vb[4]) ELSE R(1),
         offset_x |-> RMul(RNeg(vb[1]), IF RLt(R(0), vb[3]) THEN RDiv(vw, vb[3]) ELSE R(1)),
         offset_y |-> RMul(RNeg(vb[2]), IF RLt(R(0), vb[4]) THEN RDiv(vh, vb[4]) ELSE R(1))]

\* SVGState._calculate_viewbox_transform: [scale_x, scale_y, offset_x, offset_y]
calculate_viewbox_transform(ns, root, vw, vh, vb) ==
    IF vb = <<>> THEN
        [scale_x |-> R(1), scale_y |-> R(1), offset_x |-> R(0), offset_y |-> R(0)]
    ELSE
        LET vb_min_x == vb[1]
            vb_min_y == vb[2]
            vb_width == vb[3]
            vb_height == vb[4]
            parts == get_attribute(ns, root, "preserveAspectRatio", DefaultPreserveAspect, TRUE)
            scale_x == IF RLt(R(0), vb_width) THEN RDiv(vw, vb_width) ELSE R(1)
            scale_y == IF RLt(R(0), vb_height) THEN RDiv(vh, vb_height) ELSE R(1)
        IN  IF Len(parts) = 0 \/ Lower(parts[1]) = <<"n", "o", "n", "e">> THEN
                [scale_x |-> scale_x, scale_y |-> scale_y,
                 offset_x |-> RMul(RNeg(vb_min_x), scale_x),
                 offset_y |-> RMul(RNeg(vb_min_y), scale_y)]
            ELSE
                LET meet_or_slice == IF Len(parts) > 1 THEN Lower(parts[2])
                                     ELSE <<"m", "e", "e", "t">>
                    scale == IF meet_or_slice = <<"m", "e", "e", "t">>
                             THEN RMin(scale_x, scale_y) ELSE RMax(scale_x, scale_y)
                    scaled_width == RMul(vb_width, scale)
                    scaled_height == RMul(vb_height, scale)
                    align == Lower(parts[1])
                    offset_x ==
                        IF Contains(align, <<"x", "m", "i", "n">>) THEN R(0)
                        ELSE IF Contains(align, <<"x", "m", "i", "d">>)
                                \/ (~Contains(align, <<"x", "m", "i", "d">>)
                                    /\ ~Contains(align, <<"x", "m", "a", "x">>))
                             THEN RDiv(RSub(vw, scaled_width), R(2))
                             ELSE RSub(vw, scaled_width)
                    offset_y ==
                        IF Contains(align, <<"y", "m", "i", "n">>) THEN R(0)
                        ELSE IF Contains(align, <<"y", "m", "i", "d">>)
                                \/ (~Contains(align, <<"y", "m", "i", "d">>)
                                    /\ ~Contains(align, <<"y", "m", "a", "x">>))
                             THEN RDiv(RSub(vh, scaled_height), R(2))
                             ELSE RSub(vh, scaled_height)
                IN  [scale_x |-> scale, scale_y |-> scale,
                     offset_x |-> RSub(offset_x, RMul(vb_min_x, scale)),
                     offset_y |-> RSub(offset_y, RMul(vb_min_y, scale))]

\* the defaults of SVGState._extract_viewport_info: a missing width or height
\* is taken from the viewBox, and is 100.0 without one
ViewportFallback(w0, h0, vb) ==
    [w |-> IF w0 # NoVal THEN w0 ELSE IF vb # <<>> THEN vb[3] ELSE R(100),
     h |-> IF h0 # NoVal THEN h0 ELSE IF vb # <<>> THEN vb[4] ELSE R(100),
     vb |-> vb]

\* normalize_unit(attrs[name]) when the attribute is present, else None
normalize_present(attrs, name) ==
    IF Has(attrs, name) THEN normalize_unit(attrs[name], "length", NoVal, NoVal) ELSE NoVal

\* SVGState._extract_viewport_info, the part before _calculate_viewbox_transform:
\* [w, h, vb]
ResolveViewport(attrs) ==
    ViewportFallback(normalize_present(attrs, "width"), normalize_present(attrs, "height"),
                     IF Has(attrs, "viewBox") THEN ParseViewBox(attrs["viewBox"]) ELSE <<>>)

\* SVGState._extract_viewport_info without a root: it returns at once
ExtractNoRoot ==
    /\ phase = "parsed"
    /\ svg_tree = None
    /\ phase' = "extracted"
    /\ UNCHANGED <<docVars, stateVars, afterStateVars>>

\* SVGState._extract_viewport_info
ExtractViewportInfo ==
    /\ phase = "parsed"
    /\ svg_tree # None
    /\ \E v \in {ResolveViewport(nodes[svg_tree].attributes)} :
           IF v.w = Raised \/ v.h = Raised
           THEN /\ phase' = "raised"
                /\ UNCHANGED stateVars
           ELSE /\ viewport_width' = v.w
                /\ viewport_height' = v.h
                /\ viewbox' = v.vb
                /\ viewbox_transform' =
                       calculate_viewbox_transform(nodes, svg_tree, v.w, v.h, v.vb)
                /\ phase' = "extracted"
                /\ UNCHANGED <<validation_errors, validation_warnings>>
    /\ UNCHANGED <<docVars, afterStateVars>>

\* "w < 0" inside try/except: an exception of normalize_unit is swallowed
IsNegative(v) == IsNum(v) /\ RLt(v, R(0))

\* SVGState._validate_rect
validate_rect(attrs) ==
    (IF ~Has(attrs, "width") /\ ~Has(attrs, "height")
     THEN <<"<rect> should have width or height">> ELSE <<>>)
    \o (IF IsNegative(normalize_present(attrs, "width"))
        THEN <<"<rect> has negative width">> ELSE <<>>)
    \o (IF IsNegative(normalize_present(attrs, "height"))
        THEN <<"<rect> has negative height">> ELSE <<>>)

\* SVGState._validate_circle
validate_circle(attrs) ==
    IF ~Has(attrs, "r") THEN <<"<circle> should have radius (r)">>
    ELSE IF IsNegative(normalize_present(attrs, "r"))
         THEN <<"<circle> has negative radius">> ELSE <<>>

\* SVGState._validate_ellipse
validate_ellipse(attrs) ==
    IF ~Has(attrs, "rx") /\ ~Has(attrs, "ry")
    THEN <<"<ellipse> should have rx or ry">> ELSE <<>>

\* SVGState._validate_line
validate_line(attrs) ==
    IF \E a \in {"x1", "y1", "x2", "y2"} : ~Has(attrs, a)
    THEN <<"<line> missing attributes">> ELSE <<>>

\* SVGState._validate_polyline: the points text is invalid when it is empty
\* or shorter than three characters
validate_polyline(attrs) ==
    IF ~Has(attrs, "points") THEN <<"should have points attribute">>
    ELSE IF Len(attrs["points"]) < 3 THEN <<"has invalid points attribute">>
    ELSE <<>>

\* SVGState._validate_path
validate_path(attrs) ==
    IF ~Has(attrs, "d") THEN <<"<path> should have 'd' (path data) attribute">>
    ELSE IF Len(attrs["d"]) = 0 THEN <<"<path> has empty 'd' attribute">>
    ELSE <<>>

\* the warnings _validate_node gives for the node itself.  Its loop over
\* numeric_attrs warns only about a value that parses to nan or inf, and no
\* value of the model does.
validate_own(tag, attrs) ==
    IF tag = "rect" THEN validate_rect(attrs)
    ELSE IF tag = "circle" THEN validate_circle(attrs)
    ELSE IF tag = "ellipse" THEN validate_ellipse(attrs)
    ELSE IF tag = "line" THEN validate_line(attrs)
    ELSE IF tag = "polyline" \/ tag = "polygon" THEN validate_polyline(attrs)
    ELSE IF tag = "path" THEN validate_path(attrs)
    ELSE <<>>

\* SVGState._validate_node: the node, then its children in order, each with its
\* whole subtree; todo holds the nodes still to visit, the next one first
RECURSIVE validate_node(_, _)
validate_node(ns, todo) ==
    IF todo = <<>> THEN <<>>
    ELSE LET n == Head(todo)
         IN  validate_own(ns[n].tag, ns[n].attributes)
             \o validate_node(ns, ns[n].children \o Tail(todo))

\* the hard errors of SVGState.validate for a document with a root, without the
\* test of the viewBox height
validate_errors_without_viewbox_height(tag, vw, vh, vb) ==
    (IF tag # "svg" THEN <<"Root element is not <svg>">> ELSE <<>>)
    \o (IF vw # NoVal /\ RLe(vw, R(0)) THEN <<"Invalid viewport width">> ELSE <<>>)
    \o (IF vh # NoVal /\ RLe(vh, R(0)) THEN <<"Invalid viewport height">> ELSE <<>>)
    \o (IF vb # <<>> /\ RLe(vb[3], R(0)) THEN <<"Invalid viewBox width">> ELSE <<>>)

\* the hard errors of SVGState.validate for a document with a root
validate_errors(tag, vw, vh, vb) ==
    (IF tag # "svg" THEN <<"Root element is not <svg>">> ELSE <<>>)
    \o (IF vw # NoVal /\ RLe(vw, R(0)) THEN <<"Invalid viewport width">> ELSE <<>>)
    \o (IF vh # NoVal /\ RLe(vh, R(0)) THEN <<"Invalid viewport height">> ELSE <<>>)
    \o (IF vb # <<>> /\ RLe(vb[3], R(0)) THEN <<"Invalid viewBox width">> ELSE <<>>)
    \o (IF vb # <<>> /\ RLe(vb[4], R(0)) THEN <<"Invalid viewBox height">> ELSE <<>>)

\* SVGState.validate
Validate ==
    /\ phase = "extracted"
    /\ IF svg_tree = None
       THEN /\ validation_errors' = <<"No root <svg> element found">>
            /\ validation_warnings' = <<>>
       ELSE /\ validation_errors' =
                   validate_errors(nodes[svg_tree].tag, viewport_width,
                                   viewport_height, viewbox)
            /\ validation_warnings' = validate_node(nodes, <<svg_tree>>)
    /\ phase' = "validated"
    /\ UNCHANGED <<docVars, viewport_width, viewport_height, viewbox, viewbox_transform,
                   afterStateVars>>

\* SVGState.is_valid
is_valid == Len(validation_errors) = 0

\* SVGState.__init__ after parse_svg_contents
StateStep ==
    \/ ExtractNoRoot
    \/ ExtractViewportInfo
    \/ Validate

(***************************************************************************)
(* attributes.py and colors.py: the paint of a node.  A text that is None  *)
(* is NoneStr, a colour that is None is <<>>.                              *)
(***************************************************************************)
NoneStr == <<"None">>

\* SVG_DEFAULTS, the entries the renderer of the model reads
SVG_DEFAULTS ==
    [a \in {"fill", "stroke", "opacity", "fill-opacity", "stroke-opacity",
            "fill-rule", "clip-rule", "color", "stroke-linecap", "stroke-linejoin",
            "stroke-dasharray", "stroke-dashoffset"} |->
        CASE a = "fill" -> <<"b", "l", "a", "c", "k">>
          [] a = "stroke" -> <<"n", "o", "n", "e">>
          [] a \in {"opacity", "fill-opacity", "stroke-opacity"} -> <<"1">>
          [] a \in {"fill-rule", "clip-rule"} -> <<"n", "o", "n", "z", "e", "r", "o">>
          [] a = "color" -> <<"b", "l", "a", "c", "k">>
          [] a = "stroke-linecap" -> <<"b", "u", "t", "t">>
          [] a = "stroke-linejoin" -> <<"m", "i", "t", "e", "r">>
          [] a = "stroke-dasharray" -> <<<<"n", "o", "n", "e">>>>
          [] a = "stroke-dashoffset" -> <<"0">>]

\* get_attribute_with_default
get_attribute_with_default(ns, n, attr_name, use_inheritance) ==
    get_attribute(ns, n, attr_name, Get(SVG_DEFAULTS, attr_name, NoneStr), use_inheritance)

\* str.strip() and str.lstrip('#')
RECURSIVE lstrip(_, _)
lstrip(str, chars) ==
    IF str # <<>> /\ Head(str) \in chars THEN lstrip(Tail(str), chars) ELSE str

RECURSIVE rstrip(_, _)
rstrip(str, chars) ==
    IF str # <<>> /\ str[Len(str)] \in chars THEN rstrip(SubSeq(str, 1, Len(str) - 1), chars)
    ELSE str

Whitespace == {" ", "\t", "\n", "\r"}

strip(str) == rstrip(lstrip(str, Whitespace), Whitespace)

startswith(str, prefix) == Len(str) >= Len(prefix) /\ SubSeq(str, 1, Len(prefix)) = prefix

\* resolve_color_value on a stripped, non-empty value
resolve_color_value(value, ns, n) ==
    IF Lower(value) = <<"c", "u", "r", "r", "e", "n", "t", "c", "o", "l", "o", "r">>
    THEN get_attribute(ns, n, "color", <<"b", "l", "a", "c", "k">>, TRUE)
    ELSE Lower(value)

\* NAMED_COLORS, the entries the documents of the model use
NAMED_COLORS ==
    (<<"b", "l", "a", "c", "k">> :> <<0, 0, 0>>)
    @@ (<<"b", "l", "u", "e">> :> <<0, 0, 255>>)
    @@ (<<"g", "r", "e", "e", "n">> :> <<0, 128, 0>>)
    @@ (<<"r", "e", "d">> :> <<255, 0, 0>>)
    @@ (<<"w", "h", "i", "t", "e">> :> <<255, 255, 255>>)

\* int(c, 16) for one hexadecimal digit
HexVal(c) ==
    CASE c \in Digits -> DigitVal(c)
      [] c = "a" -> 10 [] c = "b" -> 11 [] c = "c" -> 12
      [] c = "d" -> 13 [] c = "e" -> 14 [] c = "f" -> 15

\* the characters int(c, 16) takes as one hexadecimal digit, lower-cased
HexDigits == Digits \cup {"a", "b", "c", "d", "e", "f"}

\* parse_hex_color on the text after strip() and lstrip('#'): the digits are
\* read with int(..., 16), which raises ValueError (Raised here) on a text
\* that is no hexadecimal number; of eight digits only the first six are read
HexColor(digits) ==
    IF Len(digits) = 3
    THEN IF \A i \in 1..3 : digits[i] \in HexDigits
         THEN <<HexVal(digits[1]) * 17, HexVal(digits[2]) * 17, HexVal(digits[3]) * 17>>
         ELSE Raised
    ELSE IF Len(digits) = 6 \/ Len(digits) = 8
    THEN IF \A i \in 1..6 : digits[i] \in HexDigits
         THEN <<HexVal(digits[1]) * 16 + HexVal(digits[2]),
                HexVal(digits[3]) * 16 + HexVal(digits[4]),
                HexVal(digits[5]) * 16 + HexVal(digits[6])>>
         ELSE Raised
    ELSE <<0, 0, 0>>

\* parse_hex_color
parse_hex_color(hex_str) == HexColor(lstrip(strip(hex_str), {"#"}))

\* parse_color after resolve_color_value; the rgb() notation is outside the
\* values of the model
ParseResolved(color_str) ==
    IF color_str = <<"n", "o", "n", "e">> THEN <<>>
    ELSE IF color_str \in DOMAIN NAMED_COLORS THEN NAMED_COLORS[color_str]
    ELSE IF startswith(color_str, <<"#">>) THEN parse_hex_color(color_str)
    ELSE <<0, 0, 0>>

\* parse_color.  For a text of white space only resolve_color_value returns
\* None, which parse_color takes for the colour text: None.lower() raises
\* AttributeError
parse_color(color_str, ns, n) ==
    IF color_str = <<>> \/ color_str = NoneStr THEN <<>>
    ELSE IF strip(color_str) = <<>> THEN Raised
    ELSE ParseResolved(Lower(resolve_color_value(strip(color_str), ns, n)))

\* max(0.0, min(1.0, v))
Clamp01(v) == RMax(R(0), RMin(R(1), v))

\* "float(s), clamped to [0, 1]" inside try/except: otherwise is the value the
\* handler leaves
ClampedOr(v, otherwise) == IF IsNum(v) THEN Clamp01(v) ELSE otherwise

\* the opacity an attribute text gives, 1.0 when it is empty or no number
OpacityOf(text) ==
    IF text = <<>> \/ text = NoneStr THEN R(1) ELSE ClampedOr(float_of(text), R(1))

\* get_color_with_opacity
get_color_with_opacity(color, opacity) ==
    IF color = <<>> THEN <<0, 0, 0, 0>>
    ELSE <<color[1], color[2], color[3], RInt(RMul(opacity, R(255)))>>

\* get_node_color(node, color_attr, 'opacity'); specific_attr is
\* "<color_attr>-opacity"
get_node_color(ns, n, color_attr, specific_attr) ==
    get_color_with_opacity(
        parse_color(get_attribute_with_default(ns, n, color_attr, TRUE), ns, n),
        RMul(OpacityOf(get_attribute_with_default(ns, n, "opacity", TRUE)),
             OpacityOf(get_attribute_with_default(ns, n, specific_attr, TRUE))))

(***************************************************************************)
(* drawing_context.py.  A TransformMatrix is <<a, b, c, d, e, f>>; the     *)
(* matrices of the model are built from matrix, translate and scale (the   *)
(* trigonometry of rotate, skewX and skewY is outside its numbers).        *)
(***************************************************************************)
TransformMatrix(a, b, c, d, e, f) == <<a, b, c, d, e, f>>

identity == TransformMatrix(R(1), R(0), R(0), R(1), R(0), R(0))

translate(tx, ty) == TransformMatrix(R(1), R(0), R(0), R(1), tx, ty)

scale(sx, sy) == TransformMatrix(sx, R(0), R(0), sy, R(0), R(0))

\* a * x + c * y + e
Affine(a, x, c, y, e) == RAdd(RAdd(RMul(a, x), RMul(c, y)), e)

\* TransformMatrix.multiply with self and other exchanged
multiply_exchanged(self, other) ==
    TransformMatrix(Affine(other[1], self[1], other[3], self[2], R(0)),
                    Affine(other[2], self[1], other[4], self[2], R(0)),
                    Affine(other[1], self[3], other[3], self[4], R(0)),
                    Affine(other[2], self[3], other[4], self[4], R(0)),
                    Affine(other[1], self[5], other[3], self[6], other[5]),
                    Affine(other[2], self[5], other[4], self[6], other[6]))

\* TransformMatrix.multiply
multiply(self, other) ==
    TransformMatrix(Affine(self[1], other[1], self[3], other[2], R(0)),
                    Affine(self[2], other[1], self[4], other[2], R(0)),
                    Affine(self[1], other[3], self[3], other[4], R(0)),
                    Affine(self[2], other[3], self[4], other[4], R(0)),
                    Affine(self[1], other[5], self[3], other[6], self[5]),
                    Affine(self[2], other[5], self[4], other[6], self[6]))

\* TransformMatrix.is_identity; the entries of the model's matrices are
\* multiples of 1/1024, so "within 1e-6" is equality
is_identity(self) == self = identity

\* TransformMatrix.transform_point
matrix_transform_point(self, x, y) ==
    <<Affine(self[1], x, self[3], y, self[5]), Affine(self[2], x, self[4], y, self[6])>>

\* TransformMatrix.inverse for the determinant det; a determinant of the
\* model is below 1e-10 in magnitude only when it is 0
InverseWith(self, det) ==
    IF det = R(0) THEN identity
    ELSE TransformMatrix(RDiv(self[4], det), RDiv(RNeg(self[2]), det),
                         RDiv(RNeg(self[3]), det), RDiv(self[1], det),
                         RDiv(RSub(RMul(self[3], self[6]), RMul(self[4], self[5])), det),
                         RDiv(RSub(RMul(self[2], self[5]), RMul(self[1], self[6])), det))

\* TransformMatrix.inverse whose e and f are the negated translation, the
\* linear part left out of them
inverse_of_parts(self) ==
    IF RSub(RMul(self[1], self[4]), RMul(self[2], self[3])) = R(0) THEN identity
    ELSE TransformMatrix(
             RDiv(self[4], RSub(RMul(self[1], self[4]), RMul(self[2], self[3]))),
             RDiv(RNeg(self[2]), RSub(RMul(self[1], self[4]), RMul(self[2], self[3]))),
             RDiv(RNeg(self[3]), RSub(RMul(self[1], self[4]), RMul(self[2], self[3]))),
             RDiv(self[1], RSub(RMul(self[1], self[4]), RMul(self[2], self[3]))),
             RNeg(self[5]), RNeg(self[6]))

\* TransformMatrix.inverse
inverse(self) == InverseWith(self, RSub(RMul(self[1], self[4]), RMul(self[2], self[3])))

\* ctx.clip_region = None
NoClip == [type |-> "none", bounds |-> <<>>, points |-> <<>>, rule |-> <<>>, regions |-> <<>>]

\* DrawingContext.__init__
DrawingContext ==
    [transform |-> identity, fill_color |-> <<0, 0, 0, 255>>,
     stroke_color |-> <<0, 0, 0, 255>>, stroke_width |-> R(1), opacity |-> R(1),
     clip_region |-> NoClip]

\* DrawingContext.push: the new context holds copies of every field
push(self) == self

\* the value "try: float(text) except: 1.0" leaves, and NoVal when the text is
\* empty and the field keeps its value
FloatOrOne(text, v) == IF text = <<>> THEN NoVal ELSE IF IsNum(v) THEN v ELSE R(1)

\* what DrawingContext.apply_node_attributes reads from the node
NodeStyle(ns, n) ==
    [fill_color |-> get_node_color(ns, n, "fill", "fill-opacity"),
     stroke_color |-> get_node_color(ns, n, "stroke", "stroke-opacity"),
     stroke_width |-> FloatOrOne(get_attribute(ns, n, "stroke-width", <<"1">>, TRUE),
                                 float_of(get_attribute(ns, n, "stroke-width", <<"1">>, TRUE))),
     opacity |-> FloatOrOne(get_attribute(ns, n, "opacity", <<"1">>, TRUE),
                            float_of(get_attribute(ns, n, "opacity", <<"1">>, TRUE)))]

\* DrawingContext.apply_node_attributes, style being NodeStyle of the node
apply_node_attributes(self, style) ==
    [self EXCEPT !.fill_color = style.fill_color,
                 !.stroke_color = style.stroke_color,
                 !.stroke_width = IF style.stroke_width = NoVal THEN @ ELSE style.stroke_width,
                 !.opacity = IF style.opacity = NoVal THEN @ ELSE Clamp01(style.opacity)]

\* the value of an entry of params_list, or the default of a missing one
ParamOr(ps, i, default) == IF Len(ps) >= i THEN ps[i] ELSE default

\* the matrix of one transform function with the parsed parameters ps, <<>>
\* for "matrix" with fewer than six parameters, which changes nothing; rotate,
\* skewX and skewY are outside the documents of the model
TransformOf(func_name, ps) ==
    CASE func_name = "matrix" /\ Len(ps) >= 6 ->
            TransformMatrix(ps[1], ps[2], ps[3], ps[4], ps[5], ps[6])
      [] func_name = "matrix" /\ Len(ps) < 6 -> <<>>
      [] func_name = "translate" -> translate(ParamOr(ps, 1, R(0)), ParamOr(ps, 2, R(0)))
      [] func_name = "scale" ->
            scale(ParamOr(ps, 1, R(1)), ParamOr(ps, 2, ParamOr(ps, 1, R(1))))

\* params = [float(p) for p in params_list if p]; an entry is Raised when
\* float() raises ValueError for it
NonEmpty(p) == p # <<>>

FloatParams(params_list) ==
    [i \in 1..Len(SelectSeq(params_list, NonEmpty)) |->
        float_of(SelectSeq(params_list, NonEmpty)[i])]

\* one iteration that multiplies from the left: the new matrix composed with
\* the accumulated one
ApplyOne_from_left(self, ps, new_transform) ==
    IF \E i \in 1..Len(ps) : ps[i] = Raised THEN [self EXCEPT !.raised = TRUE]
    ELSE IF new_transform = <<>> THEN self
    ELSE [self EXCEPT !.transform = multiply(new_transform, @)]

\* one iteration of the loop of apply_transform on self = [transform, raised]
ApplyOne(self, ps, new_transform) ==
    IF \E i \in 1..Len(ps) : ps[i] = Raised THEN [self EXCEPT !.raised = TRUE]
    ELSE IF new_transform = <<>> THEN self
    ELSE [self EXCEPT !.transform = multiply(@, new_transform)]

RECURSIVE TransformsFrom(_, _)
TransformsFrom(self, matches) ==
    IF matches = <<>> \/ self.raised THEN self
    ELSE TransformsFrom(
             ApplyOne(self, FloatParams(Head(matches).params),
                      TransformOf(Head(matches).func_name, FloatParams(Head(matches).params))),
             Tail(matches))

\* DrawingContext.apply_transform.  transform_str is held as the list of the
\* (func_name, params) matches of transform_pattern, func_name lower-cased and
\* params split at commas and spaces.  The result is the transform the context
\* is left with and whether float() raised ValueError on the way.
apply_transform(transform, transform_str) ==
    TransformsFrom([transform |-> transform, raised |-> FALSE], transform_str)

(***************************************************************************)
(* renderer.py: coordinates.  `state` is the SVGState the renderer holds   *)
(* (a record of its fields), `ctx` a DrawingContext.  A pixel point is a   *)
(* record; the ("dummy", "dummy") marker _parse_path puts before each      *)
(* subpath is the point with dummy = TRUE.                                 *)
(***************************************************************************)
SetMin(S) == CHOOSE x \in S : \A y \in S : x <= y

SetMax(S) == CHOOSE x \in S : \A y \in S : y <= x

\* SVGState.transform_point
transform_point(state, x, y) ==
    IF state.viewbox = <<>> THEN <<x, y>>
    ELSE <<RAdd(RMul(x, state.viewbox_transform.scale_x), state.viewbox_transform.offset_x),
           RAdd(RMul(y, state.viewbox_transform.scale_y), state.viewbox_transform.offset_y)>>

\* SVGState.transform_length
transform_length(state, length, is_horizontal) ==
    IF state.viewbox = <<>> THEN length
    ELSE IF is_horizontal THEN RMul(length, state.viewbox_transform.scale_x)
    ELSE RMul(length, state.viewbox_transform.scale_y)

Point(x, y) == [x |-> x, y |-> y, dummy |-> FALSE]

DummyPixel == [x |-> 0, y |-> 0, dummy |-> TRUE]

\* (int(round(px)), int(round(py)))
RoundPoint(p) == Point(RRound(p[1]), RRound(p[2]))

MatrixPixel(transform, p) == RoundPoint(matrix_transform_point(transform, p[1], p[2]))

\* Renderer._svg_to_pixel for numbers x and y
svg_to_pixel(state, ctx, x, y) == MatrixPixel(ctx.transform, transform_point(state, x, y))

\* (v - offset) / scale, unless the scale is 0
UnView(v, offset, factor) == IF factor # R(0) THEN RDiv(RSub(v, offset), factor) ELSE v

UnViewPoint(state, p) ==
    IF state.viewbox = <<>> THEN p
    ELSE <<UnView(p[1], state.viewbox_transform.offset_x, state.viewbox_transform.scale_x),
           UnView(p[2], state.viewbox_transform.offset_y, state.viewbox_transform.scale_y)>>

\* Renderer._pixel_to_svg
pixel_to_svg(state, ctx, px, py) ==
    UnViewPoint(state, matrix_transform_point(inverse(ctx.transform), px, py))

(***************************************************************************)
(* renderer.py: _point_in_polygon.  The loop keeps j, the index of the     *)
(* previous point, and moves it only past a pair of points that are both   *)
(* no marker.  Crossings are summed: for "evenodd" each crossing counts 1  *)
(* and the point is inside when the sum is odd, otherwise a crossing       *)
(* counts +1 or -1 and the point is inside when the sum is not 0.  The     *)
(* coordinates are integers; the quotient of the evenodd test is exact in  *)
(* the rationals and decides the comparison as the float quotient does.    *)
(***************************************************************************)
EVENODD == <<"e", "v", "e", "n", "o", "d", "d">>

\* (xj - xi) * (y - yi) - (yj - yi) * (x - xi)
Cross(x, y, pi, pj) == (pj.x - pi.x) * (y - pi.y) - (pj.y - pi.y) * (x - pi.x)

EdgeEvenOdd(x, y, pi, pj) ==
    IF ((pi.y > y) # (pj.y > y))
       /\ RLt(R(x), RAdd(Rat((pj.x - pi.x) * (y - pi.y), pj.y - pi.y), R(pi.x)))
    THEN 1 ELSE 0

EdgeWinding(x, y, pi, pj) ==
    IF pi.y <= y
    THEN (IF pj.y > y /\ Cross(x, y, pi, pj) > 0 THEN 1 ELSE 0)
    ELSE (IF pj.y <= y /\ Cross(x, y, pi, pj) < 0 THEN -1 ELSE 0)

EdgeCount(x, y, pi, pj, fill_rule) ==
    IF fill_rule = EVENODD THEN EdgeEvenOdd(x, y, pi, pj) ELSE EdgeWinding(x, y, pi, pj)

RECURSIVE EdgesFrom(_, _, _, _, _, _, _)
EdgesFrom(x, y, points, fill_rule, i, j, sum) ==
    IF i > Len(points) THEN sum
    ELSE IF points[i].dummy \/ points[j].dummy
         THEN EdgesFrom(x, y, points, fill_rule, i + 1, j, sum)
         ELSE EdgesFrom(x, y, points, fill_rule, i + 1, i,
                        sum + EdgeCount(x, y, points[i], points[j], fill_rule))

InsideBySum(fill_rule, sum) == IF fill_rule = EVENODD THEN sum % 2 = 1 ELSE sum # 0

\* Renderer._point_in_polygon deciding by the winding count whatever the rule
point_in_polygon_by_winding(x, y, points, fill_rule) ==
    IF Len(points) < 3 THEN FALSE
    ELSE EdgesFrom(x, y, points, <<>>, 1, Len(points), 0) # 0

point_in_polygon(x, y, points, fill_rule) ==
    IF Len(points) < 3 THEN FALSE
    ELSE InsideBySum(fill_rule, EdgesFrom(x, y, points, fill_rule, 1, Len(points), 0))

(***************************************************************************)
(* renderer.py: clip regions.  A region is a record of one shape, so that  *)
(* regions can be compared: type is "none" (None), "rect", "polygon" or    *)
(* "intersection".                                                         *)
(***************************************************************************)
RectRegion(bounds) ==
    [type |-> "rect", bounds |-> bounds, points |-> <<>>, rule |-> <<>>, regions |-> <<>>]

PolygonRegion(points, rule) ==
    [type |-> "polygon", bounds |-> <<>>, points |-> points, rule |-> rule, regions |-> <<>>]

Intersection(first, second) ==
    [type |-> "intersection", bounds |-> <<>>, points |-> <<>>, rule |-> <<>>,
     regions |-> <<first, second>>]

\* Renderer._check_clip_region: TRUE when the pixel is clipped away
RECURSIVE check_clip_region(_, _, _)
check_clip_region(x, y, clip_region) ==
    IF clip_region.type = "rect" THEN
        ~(/\ clip_region.bounds[1] <= x
          /\ x < clip_region.bounds[1] + clip_region.bounds[3]
          /\ clip_region.bounds[2] <= y
          /\ y < clip_region.bounds[2] + clip_region.bounds[4])
    ELSE IF clip_region.type = "polygon" THEN
        ~point_in_polygon(x, y, clip_region.points, clip_region.rule)
    ELSE IF clip_region.type = "intersection" THEN
        \E i \in 1..Len(clip_region.regions) : check_clip_region(x, y, clip_region.regions[i])
    ELSE FALSE

\* a test that lets every pixel through, whatever the clip region
is_point_clipped_never(ctx, x, y) == FALSE

\* Renderer._is_point_clipped
is_point_clipped(ctx, x, y) ==
    IF ctx.clip_region = NoClip THEN FALSE ELSE check_clip_region(x, y, ctx.clip_region)

\* search_recursive of Renderer._find_node_by_id, todo being the nodes still
\* to visit in pre-order
RECURSIVE search_recursive(_, _, _)
search_recursive(ns, node_id, todo) ==
    IF todo = <<>> THEN None
    ELSE IF get_attribute(ns, Head(todo), "id", NoneStr, FALSE) = node_id THEN Head(todo)
    ELSE search_recursive(ns, node_id, ns[Head(todo)].children \o Tail(todo))

\* Renderer._find_node_by_id
find_node_by_id(state, node_id) ==
    IF state.svg_tree # None THEN search_recursive(state.nodes, node_id, <<state.svg_tree>>)
    ELSE None

\* the four corners _process_clip_path appends for a <rect> child
RectCorners(state, ctx, x, y, w, h) ==
    <<svg_to_pixel(state, ctx, x, y), svg_to_pixel(state, ctx, RAdd(x, w), y),
      svg_to_pixel(state, ctx, RAdd(x, w), RAdd(y, h)), svg_to_pixel(state, ctx, x, RAdd(y, h))>>

\* the points one child of the <clipPath> contributes; circle, ellipse and
\* path children are outside the documents of the model
ClipChildPoints(state, ctx, child) ==
    CASE state.nodes[child].tag = "rect" ->
            RectCorners(state, ctx,
                get_normalized_attribute(state.nodes, child, "x", R(0), state.viewport_width, state.viewport_height),
                get_normalized_attribute(state.nodes, child, "y", R(0), state.viewport_width, state.viewport_height),
                get_normalized_attribute(state.nodes, child, "width", R(0), state.viewport_width, state.viewport_height),
                get_normalized_attribute(state.nodes, child, "height", R(0), state.viewport_width, state.viewport_height))
      [] state.nodes[child].tag \notin {"rect", "circle", "ellipse", "path"} -> <<>>

RECURSIVE ClipPoints(_, _, _)
ClipPoints(state, ctx, children) ==
    IF children = <<>> THEN <<>>
    ELSE ClipChildPoints(state, ctx, Head(children)) \o ClipPoints(state, ctx, Tail(children))

\* the bounds of the 'rect' region of four points
BoundsOf(xs, ys) ==
    <<SetMin(xs), SetMin(ys), SetMax(xs) - SetMin(xs), SetMax(ys) - SetMin(ys)>>

\* the end of _process_clip_path: None, a 'rect' or a 'polygon' region
RegionOf(all_points, clip_rule) ==
    IF Len(all_points) < 3 THEN NoClip
    ELSE IF /\ Len(all_points) = 4
            /\ all_points[1].x = all_points[4].x /\ all_points[2].x = all_points[3].x
            /\ all_points[1].y = all_points[2].y /\ all_points[3].y = all_points[4].y
         THEN RectRegion(BoundsOf({all_points[i].x : i \in 1..4}, {all_points[i].y : i \in 1..4}))
         ELSE PolygonRegion(all_points, clip_rule)

\* Renderer._process_clip_path
process_clip_path(state, ctx, clip_path_node) ==
    RegionOf(ClipPoints(state, ctx, state.nodes[clip_path_node].children),
             get_attribute_with_default(state.nodes, clip_path_node, "clip-rule", TRUE))

\* the end of _parse_clip_path, clip_node being the node the id names
ClipOfNode(state, ctx, clip_node) ==
    IF clip_node # None /\ state.nodes[clip_node].tag = "clipPath"
    THEN process_clip_path(state, ctx, clip_node)
    ELSE NoClip

\* Renderer._parse_clip_path, called with the text after strip()
ParseUrl(state, ctx, clip_path_str) ==
    IF startswith(clip_path_str, <<"u", "r", "l", "(">>)
    THEN ClipOfNode(state, ctx,
             find_node_by_id(state,
                 lstrip(strip(SubSeq(clip_path_str, 5, Len(clip_path_str) - 1)), {"#"})))
    ELSE NoClip

parse_clip_path(state, ctx, clip_path_str) ==
    IF clip_path_str = <<>> \/ Lower(clip_path_str) = <<"n", "o", "n", "e">> THEN NoClip
    ELSE ParseUrl(state, ctx, strip(clip_path_str))

\* lines 269-278 of _render_node: the clip region of ctx afterwards
ClipWith(old, clip_region) ==
    IF clip_region = NoClip THEN old
    ELSE IF old = NoClip THEN clip_region
    ELSE Intersection(old, clip_region)

(***************************************************************************)
(* renderer.py: _parse_path.  The path data is held as the list of its     *)
(* commands, each the command letter and the number tokens that follow it  *)
(* (every token of the model is text float() accepts, so                   *)
(* _parse_path_numbers keeps them all).  The state of the loop is the      *)
(* points so far, the current point, the start of the subpath and whether  *)
(* an exception ended the call.  The commands of the model are M, L, H, V, *)
(* Z, C, S, Q, T and A in either case.                                     *)
(***************************************************************************)
DummyPoint == [x |-> R(0), y |-> R(0), dummy |-> TRUE]

\* prev_cp_x, prev_cp_y and prev_qcp_x, prev_qcp_y when they are None
NoCP == <<>>

\* k counts the commands read, and smooth records for each round of S and T
\* the control point it used
PathStart ==
    [points |-> <<>>, x |-> R(0), y |-> R(0), start_x |-> R(0), start_y |-> R(0),
     prev_cp |-> NoCP, prev_qcp |-> NoCP, raised |-> FALSE, k |-> 0, smooth |-> <<>>]

\* current_x, current_y after the coordinates (a, b)
MoveBy(st, a, b, is_relative) ==
    [st EXCEPT !.x = IF is_relative THEN RAdd(@, a) ELSE a,
               !.y = IF is_relative THEN RAdd(@, b) ELSE b]

\* points.append((current_x, current_y))
Visit(st) == [st EXCEPT !.points = Append(@, Point(st.x, st.y))]

\* the loops over coordinate pairs from numbers[i].  The loop of L runs
\* "while i < len(numbers) - 1"; the loop of M runs "while i < len(numbers)"
\* and reads numbers[i + 1] all the same, an IndexError when one number is
\* left over.
RECURSIVE PairsFrom(_, _, _, _, _)
PairsFrom(st, numbers, i, is_relative, guarded) ==
    IF i + 1 <= Len(numbers)
    THEN PairsFrom(Visit(MoveBy(st, numbers[i], numbers[i + 1], is_relative)),
                   numbers, i + 2, is_relative, guarded)
    ELSE IF i <= Len(numbers) /\ ~guarded THEN [st EXCEPT !.raised = TRUE]
    ELSE st

\* lines 1254-1277, after "if len(numbers) >= 2"
MoveTo(st, numbers, is_relative) ==
    PairsFrom([st EXCEPT !.start_x = st.x, !.start_y = st.y],
              numbers, 3, is_relative, FALSE)

\* the marker, then the first point of the subpath
FirstPoint(st, numbers, is_relative) ==
    Visit(MoveBy([st EXCEPT !.points = Append(@, DummyPoint)],
                 numbers[1], numbers[2], is_relative))

\* the loops of H and V
RECURSIVE AxisFrom(_, _, _, _, _)
AxisFrom(st, numbers, i, is_relative, horizontal) ==
    IF i > Len(numbers) THEN st
    ELSE AxisFrom(Visit(MoveBy(st, IF horizontal THEN numbers[i] ELSE
                                       (IF is_relative THEN R(0) ELSE st.x),
                                   IF horizontal THEN (IF is_relative THEN R(0) ELSE st.y)
                                       ELSE numbers[i],
                                   is_relative)),
                  numbers, i + 1, is_relative, horizontal)

\* Renderer._approximate_arc: with a zero radius the straight segment; with
\* both radii non-zero and the end point on the start point the denominator
\* of `factor` is 0.0 and the division raises ZeroDivisionError.  Arcs that
\* need the trigonometry are outside the documents of the model.
approximate_arc(x1, y1, rx, ry, x2, y2) ==
    CASE rx = R(0) \/ ry = R(0) ->
            [points |-> <<Point(x1, y1), Point(x2, y2)>>, raised |-> FALSE]
      [] rx # R(0) /\ ry # R(0) /\ x1 = x2 /\ y1 = y2 ->
            [points |-> <<>>, raised |-> TRUE]

\* points.extend(arc_points[1:]); current_x, current_y = end_x, end_y
ArcTo(st, arc, end) ==
    IF arc.raised THEN [st EXCEPT !.raised = TRUE]
    ELSE [end EXCEPT !.points = st.points \o Tail(arc.points)]

\* the loop of A, "while i < len(numbers) - 6"
RECURSIVE ArcsFrom(_, _, _, _)
ArcsFrom(st, numbers, i, is_relative) ==
    IF i + 6 > Len(numbers) \/ st.raised THEN st
    ELSE ArcsFrom(ArcTo(st,
                        approximate_arc(st.x, st.y, numbers[i], numbers[i + 1],
                            MoveBy(st, numbers[i + 5], numbers[i + 6], is_relative).x,
                            MoveBy(st, numbers[i + 5], numbers[i + 6], is_relative).y),
                        MoveBy(st, numbers[i + 5], numbers[i + 6], is_relative)),
                  numbers, i + 7, is_relative)

\* midpoint(a, b) of the subdivisions
Midpoint(a, b) == <<RDiv(RAdd(a[1], b[1]), R(2)), RDiv(RAdd(a[2], b[2]), R(2))>>

\* ux * ux + uy * uy
SquareSum(ux, uy) == RAdd(RMul(ux, ux), RMul(uy, uy))

\* "ux * ux + uy * uy < tolerance * tolerance", tolerance * tolerance being
\* 0.25: where one of the two is zero the square of the other is below 0.25
\* exactly when its magnitude is below 0.5, and the square is not taken
BelowQuarter(ux, uy) ==
    IF uy[1] = 0 THEN RLt(RAbs(ux), Rat(1, 2))
    ELSE IF ux[1] = 0 THEN RLt(RAbs(uy), Rat(1, 2))
    ELSE RLt(SquareSum(ux, uy), Rat(1, 4))

\* "flatness(p0, p1, p2, p3) < tolerance * tolerance" of
\* _subdivide_cubic_bezier: the larger of the two sums is below 0.25
CubicIsFlat(p0, p1, p2, p3) ==
    /\ BelowQuarter(RSub(RSub(RMul(R(3), p1[1]), RMul(R(2), p0[1])), p3[1]),
                    RSub(RSub(RMul(R(3), p1[2]), RMul(R(2), p0[2])), p3[2]))
    /\ BelowQuarter(RSub(RSub(RMul(R(3), p2[1]), RMul(R(2), p3[1])), p0[1]),
                    RSub(RSub(RMul(R(3), p2[2]), RMul(R(2), p3[2])), p0[2]))

\* subdivide(p0, p1, p2, p3, depth) of _subdivide_cubic_bezier: the points
\* it appends; tolerance * tolerance is 0.25
RECURSIVE SubdivideCubic(_, _, _, _, _)
SubdivideCubic(p0, p1, p2, p3, depth) ==
    IF depth > 10 \/ CubicIsFlat(p0, p1, p2, p3) THEN <<p3>>
    ELSE SubdivideCubic(p0, Midpoint(p0, p1),
                        Midpoint(Midpoint(p0, p1), Midpoint(p1, p2)),
                        Midpoint(Midpoint(Midpoint(p0, p1), Midpoint(p1, p2)),
                                 Midpoint(Midpoint(p1, p2), Midpoint(p2, p3))),
                        depth + 1)
         \o SubdivideCubic(Midpoint(Midpoint(Midpoint(p0, p1), Midpoint(p1, p2)),
                                    Midpoint(Midpoint(p1, p2), Midpoint(p2, p3))),
                           Midpoint(Midpoint(p1, p2), Midpoint(p2, p3)),
                           Midpoint(p2, p3), p3, depth + 1)

\* the largest value of `depth` among the calls of subdivide that
\* subdivide(p0, p1, p2, p3, depth) makes, itself included
RECURSIVE CubicDepth(_, _, _, _, _)
CubicDepth(p0, p1, p2, p3, depth) ==
    IF depth > 10 \/ CubicIsFlat(p0, p1, p2, p3) THEN depth
    ELSE Max(CubicDepth(p0, Midpoint(p0, p1),
                        Midpoint(Midpoint(p0, p1), Midpoint(p1, p2)),
                        Midpoint(Midpoint(Midpoint(p0, p1), Midpoint(p1, p2)),
                                 Midpoint(Midpoint(p1, p2), Midpoint(p2, p3))),
                        depth + 1),
             CubicDepth(Midpoint(Midpoint(Midpoint(p0, p1), Midpoint(p1, p2)),
                                 Midpoint(Midpoint(p1, p2), Midpoint(p2, p3))),
                        Midpoint(Midpoint(p1, p2), Midpoint(p2, p3)),
                        Midpoint(p2, p3), p3, depth + 1))

\* Renderer._subdivide_cubic_bezier
subdivide_cubic_bezier(p0, p1, p2, p3) == <<p0>> \o SubdivideCubic(p0, p1, p2, p3, 0)

\* "flatness(p0, p1, p2) < tolerance * tolerance" of
\* _subdivide_quadratic_bezier
QuadraticIsFlat(p0, p1, p2) ==
    BelowQuarter(RSub(RSub(RMul(R(2), p1[1]), p0[1]), p2[1]),
                 RSub(RSub(RMul(R(2), p1[2]), p0[2]), p2[2]))

\* subdivide(p0, p1, p2, depth) of _subdivide_quadratic_bezier
RECURSIVE SubdivideQuadratic(_, _, _, _)
SubdivideQuadratic(p0, p1, p2, depth) ==
    IF depth > 10 \/ QuadraticIsFlat(p0, p1, p2) THEN <<p2>>
    ELSE SubdivideQuadratic(p0, Midpoint(p0, p1),
                            Midpoint(Midpoint(p0, p1), Midpoint(p1, p2)), depth + 1)
         \o SubdivideQuadratic(Midpoint(Midpoint(p0, p1), Midpoint(p1, p2)),
                               Midpoint(p1, p2), p2, depth + 1)

\* the largest value of `depth` among the calls of subdivide that
\* subdivide(p0, p1, p2, depth) makes, itself included
RECURSIVE QuadraticDepth(_, _, _, _)
QuadraticDepth(p0, p1, p2, depth) ==
    IF depth > 10 \/ QuadraticIsFlat(p0, p1, p2) THEN depth
    ELSE Max(QuadraticDepth(p0, Midpoint(p0, p1),
                            Midpoint(Midpoint(p0, p1), Midpoint(p1, p2)), depth + 1),
             QuadraticDepth(Midpoint(Midpoint(p0, p1), Midpoint(p1, p2)),
                            Midpoint(p1, p2), p2, depth + 1))

\* Renderer._subdivide_quadratic_bezier
subdivide_quadratic_bezier(p0, p1, p2) == <<p0>> \o SubdivideQuadratic(p0, p1, p2, 0)

\* the pair (a, b), taken from the current point when the command is relative
Target(st, a, b, is_relative) ==
    IF is_relative THEN <<RAdd(st.x, a), RAdd(st.y, b)>> ELSE <<a, b>>

\* points.extend(curve_points[1:]); current_x, current_y = end_x, end_y
CurveTo(st, curve_points, end) ==
    [st EXCEPT !.points = @ \o [i \in 1..(Len(curve_points) - 1) |->
                                   Point(curve_points[i + 1][1], curve_points[i + 1][2])],
               !.x = end[1], !.y = end[2]]

\* one round of the loop of C
CubicTo(st, cp1, cp2, end) ==
    [CurveTo(st, subdivide_cubic_bezier(<<st.x, st.y>>, cp1, cp2, end), end)
        EXCEPT !.prev_cp = cp2]

\* the loop of C, "while i < len(numbers) - 5"
RECURSIVE CubicsFrom(_, _, _, _)
CubicsFrom(st, numbers, i, is_relative) ==
    IF i + 5 > Len(numbers) THEN st
    ELSE CubicsFrom(CubicTo(st, Target(st, numbers[i], numbers[i + 1], is_relative),
                            Target(st, numbers[i + 2], numbers[i + 3], is_relative),
                            Target(st, numbers[i + 4], numbers[i + 5], is_relative)),
                    numbers, i + 6, is_relative)

\* "if prev_cp_x is not None: cp1x = 2 * current_x - prev_cp_x ... else:
\* cp1x, cp1y = current_x, current_y", and the same for prev_qcp_x
Reflected(st, prev) ==
    IF prev # NoCP
    THEN <<RSub(RMul(R(2), st.x), prev[1]), RSub(RMul(R(2), st.y), prev[2])>>
    ELSE <<st.x, st.y>>

\* the control point a round of S or T settled on, kept for the record
Noted(st, cmd, i, prev, used) ==
    [st EXCEPT !.smooth = Append(@, [k |-> st.k, cmd |-> cmd, first |-> i = 1,
                                     current |-> <<st.x, st.y>>, prev |-> prev,
                                     used |-> used])]

\* the loop of S, "while i < len(numbers) - 3"
RECURSIVE SmoothCubicsFrom(_, _, _, _)
SmoothCubicsFrom(st, numbers, i, is_relative) ==
    IF i + 3 > Len(numbers) THEN st
    ELSE SmoothCubicsFrom(
             CubicTo(Noted(st, "s", i, st.prev_cp, Reflected(st, st.prev_cp)),
                     Reflected(st, st.prev_cp),
                     Target(st, numbers[i], numbers[i + 1], is_relative),
                     Target(st, numbers[i + 2], numbers[i + 3], is_relative)),
             numbers, i + 4, is_relative)

\* one round of the loops of Q and T
QuadraticTo(st, cp, end) ==
    [CurveTo(st, subdivide_quadratic_bezier(<<st.x, st.y>>, cp, end), end)
        EXCEPT !.prev_qcp = cp]

\* the loop of Q, "while i < len(numbers) - 3"
RECURSIVE QuadraticsFrom(_, _, _, _)
QuadraticsFrom(st, numbers, i, is_relative) ==
    IF i + 3 > Len(numbers) THEN st
    ELSE QuadraticsFrom(QuadraticTo(st, Target(st, numbers[i], numbers[i + 1], is_relative),
                                    Target(st, numbers[i + 2], numbers[i + 3], is_relative)),
                        numbers, i + 4, is_relative)

\* the loop of T, "while i < len(numbers) - 1"
RECURSIVE SmoothQuadraticsFrom(_, _, _, _)
SmoothQuadraticsFrom(st, numbers, i, is_relative) ==
    IF i + 1 > Len(numbers) THEN st
    ELSE SmoothQuadraticsFrom(
             QuadraticTo(Noted(st, "t", i, st.prev_qcp, Reflected(st, st.prev_qcp)),
                         Reflected(st, st.prev_qcp),
                         Target(st, numbers[i], numbers[i + 1], is_relative)),
             numbers, i + 2, is_relative)

\* one iteration of the loop of _parse_path; cmd is the letter lower-cased
PathCommand(st, cmd, is_relative, numbers) ==
    CASE cmd = "z" ->
            IF Len(st.points) > 0
            THEN Visit([st EXCEPT !.x = st.start_x, !.y = st.start_y]) ELSE st
      [] cmd = "m" ->
            IF Len(numbers) >= 2
            THEN MoveTo(FirstPoint(st, numbers, is_relative), numbers, is_relative) ELSE st
      [] cmd = "l" -> PairsFrom(st, numbers, 1, is_relative, TRUE)
      [] cmd = "h" -> AxisFrom(st, numbers, 1, is_relative, TRUE)
      [] cmd = "v" -> AxisFrom(st, numbers, 1, is_relative, FALSE)
      [] cmd = "c" -> CubicsFrom(st, numbers, 1, is_relative)
      [] cmd = "s" -> SmoothCubicsFrom(st, numbers, 1, is_relative)
      [] cmd = "q" -> QuadraticsFrom(st, numbers, 1, is_relative)
      [] cmd = "t" -> SmoothQuadraticsFrom(st, numbers, 1, is_relative)
      [] cmd = "a" -> ArcsFrom(st, numbers, 1, is_relative)

PathNumbers(tokens) == [i \in 1..Len(tokens) |-> float_of(tokens[i])]

RECURSIVE PathFrom(_, _)
PathFrom(st, path_str) ==
    IF path_str = <<>> \/ st.raised THEN st
    ELSE PathFrom(PathCommand([st EXCEPT !.k = @ + 1], LowerChar(Head(path_str).cmd),
                              Head(path_str).cmd \in LowerLetters,
                              PathNumbers(Head(path_str).numbers)),
                  Tail(path_str))

\* Renderer._parse_path: [points, raised]
parse_path(path_str) == PathFrom(PathStart, path_str)

(***************************************************************************)
(* renderer.py: painting.  `self` is the Renderer (a record of its         *)
(* svg_state, width, height, anti_aliasing and buffer); a painting         *)
(* operator gives the buffer afterwards.  A pixel of the buffer is written *)
(* at most once by each loop, so the loop is the pointwise update of the   *)
(* buffer.  The documents of the model have no stroke and no rounded       *)
(* corners: the stroke loops and the rounded tests are outside the model.  *)
(***************************************************************************)
\* Renderer._set_pixel for a pixel inside the buffer: its value afterwards
set_pixel(current, ctx, x, y, color) ==
    IF is_point_clipped(ctx, x, y) THEN current ELSE blend_colors(color, current)

\* Renderer._set_pixel_aa for a pixel inside the buffer
set_pixel_aa(current, ctx, x, y, color, coverage) ==
    IF is_point_clipped(ctx, x, y) THEN current
    ELSE IF RLe(Clamp01(coverage), R(0)) THEN current
    ELSE blend_colors(<<color[1], color[2], color[3],
                        RInt(RMul(R(color[4]), Clamp01(coverage)))>>, current)

\* "if ctx.opacity < 1.0: if color[3] > 0: color = (..., int(color[3] * ctx.opacity))"
WithOpacity(color, opacity) ==
    IF RLt(opacity, R(1)) /\ color[4] > 0
    THEN <<color[1], color[2], color[3], RInt(RMul(R(color[4]), opacity))>>
    ELSE color

\* the bounding box of pixel points, a marker counting as 100000000 for a
\* minimum and -100000000 for a maximum
BoundingBox(ps) ==
    [min_x |-> SetMin({IF ps[i].dummy THEN 100000000 ELSE ps[i].x : i \in 1..Len(ps)}),
     max_x |-> SetMax({IF ps[i].dummy THEN -100000000 ELSE ps[i].x : i \in 1..Len(ps)}),
     min_y |-> SetMin({IF ps[i].dummy THEN 100000000 ELSE ps[i].y : i \in 1..Len(ps)}),
     max_y |-> SetMax({IF ps[i].dummy THEN -100000000 ELSE ps[i].y : i \in 1..Len(ps)})]

\* for py in range(max(0, min_y - 1), min(self.height, max_y + 2)):
\*     for px in range(max(0, min_x - 1), min(self.width, max_x + 2)):
InMargin(self, box, p) ==
    /\ Max(0, box.min_x - 1) <= p[1] /\ p[1] < Min(self.width, box.max_x + 2)
    /\ Max(0, box.min_y - 1) <= p[2] /\ p[2] < Min(self.height, box.max_y + 2)

\* the geometry attributes of a <rect>
RectGeometry(state, n) ==
    [x |-> get_normalized_attribute(state.nodes, n, "x", R(0), state.viewport_width, state.viewport_height),
     y |-> get_normalized_attribute(state.nodes, n, "y", R(0), state.viewport_width, state.viewport_height),
     width |-> get_normalized_attribute(state.nodes, n, "width", R(0), state.viewport_width, state.viewport_height),
     height |-> get_normalized_attribute(state.nodes, n, "height", R(0), state.viewport_width, state.viewport_height),
     rx |-> get_normalized_attribute(state.nodes, n, "rx", R(0), state.viewport_width, state.viewport_height),
     ry |-> get_normalized_attribute(state.nodes, n, "ry", R(0), state.viewport_width, state.viewport_height)]

\* lines 336-344: the corner radii
CornerRadius(own, other, half) ==
    RMin(IF RLt(R(0), other) /\ own = R(0) THEN other ELSE own, half)

\* lines 360-371: the bounding box of the four corners
RectBox(state, ctx, g) ==
    BoundingBox(<<svg_to_pixel(state, ctx, g.x, g.y),
                  svg_to_pixel(state, ctx, RAdd(g.x, g.width), RAdd(g.y, g.height)),
                  svg_to_pixel(state, ctx, g.x, RAdd(g.y, g.height)),
                  svg_to_pixel(state, ctx, RAdd(g.x, g.width), g.y)>>)

\* is_inside_rounded_rect of a rect without rounded corners, on the point
\* _pixel_to_svg gave
InsideRect(g, svg) ==
    /\ RLe(g.x, svg[1]) /\ RLe(svg[1], RAdd(g.x, g.width))
    /\ RLe(g.y, svg[2]) /\ RLe(svg[2], RAdd(g.y, g.height))

\* the sample points of _calculate_coverage: px + (sx + 0.5) / samples
Sample(px, s) == RAdd(R(px), Rat(2 * s + 1, 4))

\* Renderer._calculate_coverage with is_inside_rounded_rect
calculate_coverage(state, ctx, g, px, py) ==
    Rat(Cardinality({s \in {0, 1} \X {0, 1} :
            InsideRect(g, pixel_to_svg(state, ctx, Sample(px, s[1]), Sample(py, s[2])))}), 4)

\* lines 476-484: the fill loop of the axis-aligned fast path
FastFill(self, ctx, box, fill_color) ==
    [p \in DOMAIN self.buffer |->
        IF /\ Max(0, box.min_x) <= p[1] /\ p[1] < Min(self.width, box.max_x + 1)
           /\ Max(0, box.min_y) <= p[2] /\ p[2] < Min(self.height, box.max_y + 1)
        THEN set_pixel(self.buffer[p], ctx, p[1], p[2], fill_color)
        ELSE self.buffer[p]]

\* lines 499-507: the fill loop of the general path
SlowFill(self, ctx, g, box, fill_color) ==
    [p \in DOMAIN self.buffer |->
        IF ~InMargin(self, box, p) THEN self.buffer[p]
        ELSE IF self.anti_aliasing
        THEN (IF RLt(R(0), calculate_coverage(self.svg_state, ctx, g, p[1], p[2]))
              THEN set_pixel_aa(self.buffer[p], ctx, p[1], p[2], fill_color,
                                calculate_coverage(self.svg_state, ctx, g, p[1], p[2]))
              ELSE self.buffer[p])
        ELSE IF InsideRect(g, pixel_to_svg(self.svg_state, ctx,
                                           RAdd(R(p[1]), Rat(1, 2)), RAdd(R(p[2]), Rat(1, 2))))
        THEN set_pixel(self.buffer[p], ctx, p[1], p[2], fill_color)
        ELSE self.buffer[p]]

\* lines 346-349
StrokeWidthPx(state, stroke_width_svg) ==
    IF RLt(R(0), stroke_width_svg) THEN transform_length(state, stroke_width_svg, TRUE)
    ELSE R(0)

\* lines 373-517 for square corners and nothing to stroke
RectFill(self, ctx, g, rx, ry, stroke_width_px, fill_color, stroke_color) ==
    CASE rx = R(0) /\ ry = R(0) /\ ~(RLt(R(0), stroke_width_px) /\ stroke_color[4] > 0) ->
            IF fill_color[4] <= 0 THEN self.buffer
            ELSE IF is_identity(ctx.transform)
            THEN FastFill(self, ctx, RectBox(self.svg_state, ctx, g), fill_color)
            ELSE SlowFill(self, ctx, g, RectBox(self.svg_state, ctx, g), fill_color)

RectOf(self, ctx, g) ==
    IF RLe(g.width, R(0)) \/ RLe(g.height, R(0)) THEN self.buffer
    ELSE RectFill(self, ctx, g,
                  CornerRadius(g.rx, g.ry, RDiv(g.width, R(2))),
                  CornerRadius(g.ry, g.rx, RDiv(g.height, R(2))),
                  StrokeWidthPx(self.svg_state, ctx.stroke_width),
                  WithOpacity(ctx.fill_color, ctx.opacity),
                  WithOpacity(ctx.stroke_color, ctx.opacity))

\* Renderer._render_rect: the buffer afterwards
render_rect(self, ctx, n) == RectOf(self, ctx, RectGeometry(self.svg_state, n))

\* pixel_points = [self._svg_to_pixel(x, y) for x, y in points]
PixelPoints(state, ctx, points) ==
    [i \in 1..Len(points) |->
        IF points[i].dummy THEN DummyPixel
        ELSE svg_to_pixel(state, ctx, points[i].x, points[i].y)]

(***************************************************************************)
(* renderer.py: strokes.  _draw_line_segment samples each pixel of the     *)
(* segment's box at its centre.  The segments of the model have integer    *)
(* end points and an integer length, so math.sqrt is exact; the distance   *)
(* of a sample whose projection falls on the segment, which the code gets  *)
(* as the root of (px - closest_x)^2 + (py - closest_y)^2, is              *)
(* |(px - x1) * dy - (py - y1) * dx| / length.                             *)
(***************************************************************************)
\* math.sqrt of a perfect square
ISqrt(n) == CHOOSE k \in 0..n : k * k = n

\* math.floor(x)
RFloor(x) == IF RLt(x, R(0)) /\ R(RInt(x)) # x THEN RInt(x) - 1 ELSE RInt(x)

\* t % m for m > 0
RMod(t, m) == RSub(t, RMul(m, R(RFloor(RDiv(t, m)))))

\* sum(dash_array)
RECURSIVE RSum(_)
RSum(xs) == IF xs = <<>> THEN R(0) ELSE RAdd(Head(xs), RSum(Tail(xs)))

NONE == <<"n", "o", "n", "e">>

\* "if dash_len > 0: dash_values.append(dash_len)" for each part in turn, a
\* part normalize_unit raises on being passed over
RECURSIVE DashValues(_, _, _)
DashValues(parts, viewport_w, viewport_h) ==
    IF parts = <<>> THEN <<>>
    ELSE (IF IsNum(normalize_unit(Head(parts), "length", viewport_w, viewport_h))
             /\ RLt(R(0), normalize_unit(Head(parts), "length", viewport_w, viewport_h))
          THEN <<normalize_unit(Head(parts), "length", viewport_w, viewport_h)>>
          ELSE <<>>)
         \o DashValues(Tail(parts), viewport_w, viewport_h)

\* "if len(dash_values) % 2 == 1: dash_values.extend(dash_values)"
Paired(dash_values) ==
    IF Len(dash_values) % 2 = 1 THEN dash_values \o dash_values ELSE dash_values

\* Renderer._parse_dasharray without the doubling of a list of odd length
parse_dasharray_unpaired(parts, viewport_w, viewport_h) ==
    IF parts = <<>> \/ parts = <<NONE>> THEN <<>>
    ELSE DashValues(parts, viewport_w, viewport_h)

\* Renderer._parse_dasharray; the attribute is held as the parts
\* re.split(r'[\s,]+', ...) gives, 'none' being the one part "none"
parse_dasharray(parts, viewport_w, viewport_h) ==
    IF parts = <<>> \/ parts = <<NONE>> THEN <<>>
    ELSE Paired(DashValues(parts, viewport_w, viewport_h))

\* the loop "for i, dash_len in enumerate(dash_array)" of
\* calculate_line_coverage: dash_index, 0 when the loop ends without a break
RECURSIVE DashIndexFrom(_, _, _, _)
DashIndexFrom(t, dash_array, i, dash_accum) ==
    IF i > Len(dash_array) THEN 0
    ELSE IF RLt(t, RAdd(dash_accum, dash_array[i])) THEN i - 1
    ELSE DashIndexFrom(t, dash_array, i + 1, RAdd(dash_accum, dash_array[i]))

\* lines 799-812: whether the dash pattern leaves the sample unpainted
DashedOff(seg, proj, dash_pattern_length) ==
    /\ Len(seg.dash_array) > 0
    /\ RLt(R(0), dash_pattern_length)
    /\ DashIndexFrom(RMod(RAdd(RMul(proj, R(seg.length)), seg.dash_offset),
                          dash_pattern_length),
                     seg.dash_array, 1, R(0)) % 2 # 0

\* the arguments of _draw_line_segment and its locals dx, dy, length and
\* half_width
Segment(p1, p2, stroke_width, dash_array, dash_offset) ==
    [x1 |-> p1.x, y1 |-> p1.y, x2 |-> p2.x, y2 |-> p2.y,
     dx |-> p2.x - p1.x, dy |-> p2.y - p1.y,
     length |-> ISqrt((p2.x - p1.x) * (p2.x - p1.x) + (p2.y - p1.y) * (p2.y - p1.y)),
     half_width |-> RDiv(stroke_width, R(2)),
     dash_array |-> dash_array, dash_offset |-> dash_offset]

\* proj of calculate_line_coverage
LineProj(seg, px, py) ==
    RDiv(RAdd(RMul(RSub(px, R(seg.x1)), R(seg.dx)), RMul(RSub(py, R(seg.y1)), R(seg.dy))),
         R(seg.length * seg.length))

\* dist of calculate_line_coverage
LineDist(seg, px, py) ==
    RDiv(RAbs(RSub(RMul(RSub(px, R(seg.x1)), R(seg.dy)),
                   RMul(RSub(py, R(seg.y1)), R(seg.dx)))),
         R(seg.length))

\* calculate_line_coverage after proj and dist are known
CoverageOf(seg, proj, dist) ==
    IF RLt(proj, R(0)) \/ RLt(R(1), proj) THEN R(0)
    ELSE IF RLt(RAdd(seg.half_width, Rat(1, 2)), dist) THEN R(0)
    ELSE IF DashedOff(seg, proj, RSum(seg.dash_array)) THEN R(0)
    ELSE IF RLe(dist, RSub(seg.half_width, Rat(1, 2))) THEN R(1)
    ELSE Clamp01(RSub(R(1), RSub(dist, RSub(seg.half_width, Rat(1, 2)))))

\* calculate_line_coverage(px + 0.5, py + 0.5)
calculate_line_coverage(seg, px, py) ==
    CoverageOf(seg, LineProj(seg, RAdd(R(px), Rat(1, 2)), RAdd(R(py), Rat(1, 2))),
               LineDist(seg, RAdd(R(px), Rat(1, 2)), RAdd(R(py), Rat(1, 2))))

\* the ranges of the loops over py and px, lines 821-822
InSegmentBox(self, seg, p) ==
    /\ Max(0, RInt(RSub(RSub(R(Min(seg.x1, seg.x2)), seg.half_width), R(1)))) <= p[1]
    /\ p[1] < Min(self.width,
                  RInt(RAdd(RAdd(R(Max(seg.x1, seg.x2)), seg.half_width), R(1))) + 1)
    /\ Max(0, RInt(RSub(RSub(R(Min(seg.y1, seg.y2)), seg.half_width), R(1)))) <= p[2]
    /\ p[2] < Min(self.height,
                  RInt(RAdd(RAdd(R(Max(seg.y1, seg.y2)), seg.half_width), R(1))) + 1)

\* the body of the loops, lines 823-828: the pixel afterwards
SegmentPixel(self, ctx, p, stroke_color, coverage) ==
    IF self.anti_aliasing
    THEN (IF RLt(R(0), coverage)
          THEN set_pixel_aa(self.buffer[p], ctx, p[1], p[2], stroke_color, coverage)
          ELSE self.buffer[p])
    ELSE (IF RLe(Rat(1, 2), coverage)
          THEN set_pixel(self.buffer[p], ctx, p[1], p[2], stroke_color)
          ELSE self.buffer[p])

\* Renderer._draw_line_segment for a segment that is stroked: the buffer
\* afterwards
SegmentPaint(self, ctx, seg, stroke_color) ==
    [p \in DOMAIN self.buffer |->
        IF InSegmentBox(self, seg, p)
        THEN SegmentPixel(self, ctx, p, stroke_color,
                          calculate_line_coverage(seg, p[1], p[2]))
        ELSE self.buffer[p]]

\* Renderer._draw_line_segment
draw_line_segment(self, ctx, p1, p2, stroke_color, stroke_width, dash_array, dash_offset) ==
    IF RLe(stroke_width, R(0)) \/ stroke_color[4] = 0 THEN self.buffer
    ELSE IF p1.x = p2.x /\ p1.y = p2.y THEN self.buffer
    ELSE SegmentPaint(self, ctx, Segment(p1, p2, stroke_width, dash_array, dash_offset),
                      stroke_color)

BUTT == <<"b", "u", "t", "t">>

\* "try: dash_offset = normalize_unit(...) except (ValueError, TypeError): 0.0"
DashOffsetOf(v) == IF IsNum(v) THEN v ELSE R(0)

\* the stroke attributes _render_line, _render_polyline and _render_path
\* read: "get_attribute_with_default(...) or default"
StrokeStyle(state, n) ==
    [linecap |-> get_attribute_with_default(state.nodes, n, "stroke-linecap", TRUE),
     dash_array |->
         parse_dasharray(get_attribute_with_default(state.nodes, n, "stroke-dasharray", TRUE),
                         state.viewport_width, state.viewport_height),
     linejoin |-> get_attribute_with_default(state.nodes, n, "stroke-linejoin", TRUE),
     dash_offset |->
         DashOffsetOf(normalize_unit(
             get_attribute_with_default(state.nodes, n, "stroke-dashoffset", TRUE),
             "length", state.viewport_width, state.viewport_height))]

\* _render_line from line 924 on; the caps of a stroke-linecap other than
\* butt are outside the documents of the model
LineStroke(self, ctx, p1, p2, stroke_color, stroke_width, style) ==
    CASE style.linecap = BUTT \/ Len(style.dash_array) > 0 ->
            draw_line_segment(self, ctx, p1, p2, stroke_color, stroke_width,
                              style.dash_array, style.dash_offset)

\* _render_line from line 921 on
LineOf(self, ctx, n, ends, stroke_width, stroke_color) ==
    IF RLe(stroke_width, R(0)) \/ stroke_color[4] = 0 THEN self.buffer
    ELSE LineStroke(self, ctx,
                    svg_to_pixel(self.svg_state, ctx, ends.x1, ends.y1),
                    svg_to_pixel(self.svg_state, ctx, ends.x2, ends.y2),
                    stroke_color, stroke_width, StrokeStyle(self.svg_state, n))

\* x1, y1, x2 and y2 of a <line>
LineEnds(state, n) ==
    [a \in {"x1", "y1", "x2", "y2"} |->
        get_normalized_attribute(state.nodes, n, a, R(0), state.viewport_width,
                                 state.viewport_height)]

\* Renderer._render_line: the buffer afterwards
render_line(self, ctx, n) ==
    LineOf(self, ctx, n, LineEnds(self.svg_state, n),
           StrokeWidthPx(self.svg_state, ctx.stroke_width),
           WithOpacity(ctx.stroke_color, ctx.opacity))

\* is_inside_round_join of _draw_line_join, the distances compared squared
is_inside_round_join(v, half_width, px, py) ==
    RLe(RAdd(RMul(RSub(px, R(v.x)), RSub(px, R(v.x))),
             RMul(RSub(py, R(v.y)), RSub(py, R(v.y)))),
        RMul(half_width, half_width))

\* Renderer._calculate_coverage(px, py, is_inside_round_join)
JoinCoverage(v, half_width, px, py) ==
    Rat(Cardinality({smp \in {1, 3} \X {1, 3} :
                        is_inside_round_join(v, half_width, RAdd(R(px), Rat(smp[1], 4)),
                                             RAdd(R(py), Rat(smp[2], 4)))}), 4)

\* the ranges of the loops of _draw_line_join
InJoinBox(self, v, half_width_int, p) ==
    /\ Max(0, v.x - half_width_int - 1) <= p[1]
    /\ p[1] < Min(self.width, v.x + half_width_int + 2)
    /\ Max(0, v.y - half_width_int - 1) <= p[2]
    /\ p[2] < Min(self.height, v.y + half_width_int + 2)

\* the body of the loops of _draw_line_join
JoinPixel(self, ctx, v, half_width, p, stroke_color) ==
    IF self.anti_aliasing
    THEN (IF RLt(R(0), JoinCoverage(v, half_width, p[1], p[2]))
          THEN set_pixel_aa(self.buffer[p], ctx, p[1], p[2], stroke_color,
                            JoinCoverage(v, half_width, p[1], p[2]))
          ELSE self.buffer[p])
    ELSE (IF is_inside_round_join(v, half_width, RAdd(R(p[1]), Rat(1, 2)),
                                  RAdd(R(p[2]), Rat(1, 2)))
          THEN set_pixel(self.buffer[p], ctx, p[1], p[2], stroke_color)
          ELSE self.buffer[p])

JoinTypes == {<<"r", "o", "u", "n", "d">>, <<"m", "i", "t", "e", "r">>, <<"b", "e", "v", "e", "l">>}

\* Renderer._draw_line_join: every join type it knows is drawn as a disc
draw_line_join(self, ctx, v, stroke_color, stroke_width, join_type) ==
    IF RLe(stroke_width, R(0)) \/ stroke_color[4] = 0 THEN self.buffer
    ELSE IF join_type \notin JoinTypes THEN self.buffer
    ELSE [p \in DOMAIN self.buffer |->
            IF InJoinBox(self, v, Max(1, RInt(RDiv(stroke_width, R(2)))), p)
            THEN JoinPixel(self, ctx, v, RDiv(stroke_width, R(2)), p, stroke_color)
            ELSE self.buffer[p]]

\* px1, py1 and px2, py2 of the stroke loop of _render_path: a marker is
\* replaced by the other end
StrokeEnds(pixel_points, i) ==
    [p1 |-> IF pixel_points[i].dummy THEN pixel_points[i + 1] ELSE pixel_points[i],
     p2 |-> IF pixel_points[i + 1].dummy THEN pixel_points[i] ELSE pixel_points[i + 1]]

\* segment_length
SegmentLength(ends) ==
    ISqrt((ends.p2.x - ends.p1.x) * (ends.p2.x - ends.p1.x)
          + (ends.p2.y - ends.p1.y) * (ends.p2.y - ends.p1.y))

\* segment_offset
SegmentOffset(dash_offset, cumulative_distance) ==
    IF RLt(R(cumulative_distance), dash_offset)
    THEN RSub(dash_offset, R(cumulative_distance))
    ELSE R(0)

\* one round of the stroke loop: the segment, then the join at its end unless
\* it is the last segment
StrokeRound(self, ctx, ends, is_last, segment_offset, stroke_color, stroke_width, style) ==
    IF is_last
    THEN draw_line_segment(self, ctx, ends.p1, ends.p2, stroke_color, stroke_width,
                           style.dash_array, segment_offset)
    ELSE draw_line_join(
             [self EXCEPT !.buffer =
                 draw_line_segment(self, ctx, ends.p1, ends.p2, stroke_color, stroke_width,
                                   style.dash_array, segment_offset)],
             ctx, ends.p2, stroke_color, stroke_width, style.linejoin)

\* "for i in range(len(pixel_points) - 1)" of _render_polyline, which has no
\* markers in its points, and of _render_path, from round i on
RECURSIVE StrokeFrom(_, _, _, _, _, _, _, _)
StrokeFrom(self, ctx, pixel_points, i, cumulative_distance, stroke_color, stroke_width, style) ==
    IF i > Len(pixel_points) - 1 THEN self.buffer
    ELSE StrokeFrom(
             [self EXCEPT !.buffer =
                 StrokeRound(self, ctx, StrokeEnds(pixel_points, i),
                             i = Len(pixel_points) - 1,
                             SegmentOffset(style.dash_offset, cumulative_distance),
                             stroke_color, stroke_width, style)],
             ctx, pixel_points, i + 1,
             cumulative_distance + SegmentLength(StrokeEnds(pixel_points, i)),
             stroke_color, stroke_width, style)

\* the stroke loop; the caps of a stroke-linecap other than butt are outside
\* the documents of the model
Stroke(self, ctx, pixel_points, stroke_color, stroke_width, style) ==
    CASE style.linecap = BUTT \/ Len(style.dash_array) > 0 ->
            StrokeFrom(self, ctx, pixel_points, 1, 0, stroke_color, stroke_width, style)

\* Renderer._parse_polyline_points from coordinate i on; the coordinates are
\* held as the parts re.split(r'[\s,]+', ...) gives, and str() of a float
\* is read back by normalize_unit as the float
RECURSIVE PolylinePointsFrom(_, _)
PolylinePointsFrom(coords, i) ==
    IF i >= Len(coords) THEN <<>>
    ELSE IF IsNum(float_of(coords[i])) /\ IsNum(float_of(coords[i + 1]))
    THEN <<Point(float_of(coords[i]), float_of(coords[i + 1]))>>
         \o PolylinePointsFrom(coords, i + 2)
    ELSE PolylinePointsFrom(coords, i + 1)

parse_polyline_points(coords) == PolylinePointsFrom(coords, 1)

\* _render_polyline from line 982 on
PolylineOf(self, ctx, n, points, stroke_width, stroke_color) ==
    IF Len(points) < 2 THEN self.buffer
    ELSE IF RLe(stroke_width, R(0)) \/ stroke_color[4] = 0 THEN self.buffer
    ELSE Stroke(self, ctx, PixelPoints(self.svg_state, ctx, points), stroke_color,
                stroke_width, StrokeStyle(self.svg_state, n))

\* Renderer._render_polyline: the buffer afterwards
render_polyline(self, ctx, n) ==
    PolylineOf(self, ctx, n,
               parse_polyline_points(get_attribute(self.svg_state.nodes, n, "points", <<>>, TRUE)),
               StrokeWidthPx(self.svg_state, ctx.stroke_width),
               WithOpacity(ctx.stroke_color, ctx.opacity))

\* lines 1498-1517: the fill loop of _render_path
PathFill(self, ctx, pixel_points, box, fill_color, fill_rule) ==
    [p \in DOMAIN self.buffer |->
        IF InMargin(self, box, p) /\ point_in_polygon(p[1], p[2], pixel_points, fill_rule)
        THEN set_pixel(self.buffer[p], ctx, p[1], p[2], fill_color)
        ELSE self.buffer[p]]

\* lines 1496-1517: the fill of _render_path
PathFilled(self, ctx, pixel_points, fill_color, fill_rule) ==
    IF fill_color[4] > 0 /\ Len(pixel_points) >= 3
    THEN PathFill(self, ctx, pixel_points, BoundingBox(pixel_points), fill_color, fill_rule)
    ELSE self.buffer

\* lines 1487-1583: the fill, then the stroke
PathPaint(self, ctx, n, pixel_points, fill_color, stroke_color, fill_rule) ==
    IF stroke_color[4] > 0 /\ RLt(R(0), StrokeWidthPx(self.svg_state, ctx.stroke_width))
    THEN Stroke([self EXCEPT !.buffer =
                    PathFilled(self, ctx, pixel_points, fill_color, fill_rule)],
                ctx, pixel_points, stroke_color,
                StrokeWidthPx(self.svg_state, ctx.stroke_width),
                StrokeStyle(self.svg_state, n))
    ELSE PathFilled(self, ctx, pixel_points, fill_color, fill_rule)

PathOf(self, ctx, n, parsed) ==
    IF parsed.raised THEN [buffer |-> self.buffer, raised |-> TRUE]
    ELSE [raised |-> FALSE,
          buffer |->
            IF Len(parsed.points) < 2 THEN self.buffer
            ELSE PathPaint(self, ctx, n, PixelPoints(self.svg_state, ctx, parsed.points),
                           WithOpacity(ctx.fill_color, ctx.opacity),
                           WithOpacity(ctx.stroke_color, ctx.opacity),
                           get_attribute_with_default(self.svg_state.nodes, n, "fill-rule", TRUE))]

\* Renderer._render_path: the buffer afterwards, and whether _parse_path raised
render_path(self, ctx, n) ==
    PathOf(self, ctx, n, parse_path(get_attribute(self.svg_state.nodes, n, "d", <<>>, TRUE)))

\* lines 1595-1606 of _render_use: the referenced node, None when the method
\* returns early
HrefTarget(state, href) ==
    IF href = <<>> THEN None
    ELSE find_node_by_id(state,
             IF startswith(strip(href), <<"#">>) THEN Tail(strip(href)) ELSE strip(href))

referenced_node(state, n) ==
    HrefTarget(state,
        IF get_attribute(state.nodes, n, "href", <<>>, FALSE) # <<>>
        THEN get_attribute(state.nodes, n, "href", <<>>, FALSE)
        ELSE get_attribute(state.nodes, n, "xlink:href", <<>>, FALSE))

\* lines 1613-1620 of _render_use: the new context's transform.  The code
\* formats x and y into "translate({x} {y})" and apply_transform parses them
\* back; repr() and float() are inverse on floats.
UseTransform(transform, x, y) ==
    IF x # R(0) \/ y # R(0) THEN multiply(transform, translate(x, y)) ELSE transform

\* Renderer._push_context
push_context(stack) == Append(stack, push(stack[Len(stack)]))

\* Renderer._pop_context
pop_context(stack) ==
    IF Len(stack) > 1 THEN SubSeq(stack, 1, Len(stack) - 1) ELSE stack

(***************************************************************************)
(* main.py and renderer.py: the renderer over the parsed document.  One    *)
(* activation of _render_node is a frame: the node, where the activation   *)
(* stands (pc), the context its local `ctx` refers to (an index into       *)
(* context_stack), has_transform, the next child to walk, the index of its *)
(* entry in the history `entered` and who called it (render() for the      *)
(* root, the loop over the children of a node, or _render_use).            *)
(***************************************************************************)
svg_state ==
    [nodes |-> nodes, svg_tree |-> svg_tree,
     viewport_width |-> viewport_width, viewport_height |-> viewport_height,
     viewbox |-> viewbox, viewbox_transform |-> viewbox_transform]

renderer ==
    [svg_state |-> svg_state, width |-> width, height |-> height,
     anti_aliasing |-> params.anti_aliasing, buffer |-> buffer]

\* main.py, "if not svg_state.is_valid(): return False"
RejectInvalid ==
    /\ phase = "validated"
    /\ ~is_valid
    /\ phase' = "rejected"
    /\ UNCHANGED <<docVars, stateVars, afterStateVars>>

\* "if width is None: width = int(original_width)"
SizeOr(given, original) == IF given = 0 THEN RInt(original) ELSE given

\* a buffer that keeps the pixels of the Renderer constructed before
NewBuffer_kept(w, h, background_color) ==
    IF buffer # <<>> /\ DOMAIN buffer = (0..(w - 1)) \X (0..(h - 1)) THEN buffer
    ELSE [p \in (0..(w - 1)) \X (0..(h - 1)) |->
            <<background_color[1], background_color[2], background_color[3], 255>>]

\* lines 38-42 of Renderer.__init__: np.zeros and the background
NewBuffer(w, h, background_color) ==
    [p \in (0..(w - 1)) \X (0..(h - 1)) |->
        <<background_color[1], background_color[2], background_color[3], 255>>]

\* Renderer.__init__ for the size w, h it settled on
RendererInitWith(w, h) ==
    /\ width' = w
    /\ height' = h
    /\ IF R(w) # viewport_width \/ R(h) # viewport_height
       THEN /\ viewport_width' = R(w)
            /\ viewport_height' = R(h)
            /\ viewbox_transform' =
                   calculate_viewbox_transform(nodes, svg_tree, R(w), R(h), viewbox)
       ELSE UNCHANGED <<viewport_width, viewport_height, viewbox_transform>>
    /\ buffer' = NewBuffer(w, h, params.background_color)
    /\ context_stack' = <<DrawingContext>>

\* main.py, "renderer = Renderer(svg_state, ...)" for a valid document
RendererInit ==
    /\ phase = "validated"
    /\ is_valid
    /\ RendererInitWith(SizeOr(params.width, viewport_width),
                        SizeOr(params.height, viewport_height))
    /\ frames' = <<>>
    /\ entered' = <<>>
    /\ phase' = "constructed"
    /\ UNCHANGED <<docVars, viewbox, validation_errors, validation_warnings,
                   params, pass, first_buffer, pureVars>>

Frame(n, call, role) ==
    [node |-> n, pc |-> "start", ctx |-> 0, has_transform |-> FALSE, next |-> 1,
     call |-> call, role |-> role]

\* Renderer.render
Render ==
    /\ phase = "constructed"
    /\ IF svg_tree = None
       THEN /\ phase' = "rendered"
            /\ frames' = frames
       ELSE /\ phase' = "rendering"
            /\ frames' = <<Frame(svg_tree, Len(entered) + 1, "root")>>
    /\ UNCHANGED <<docVars, stateVars, params, pass, width, height, buffer,
                   context_stack, entered, first_buffer, pureVars>>

\* the innermost activation
Top == frames[Len(frames)]

\* self._get_current_context()
Current == context_stack[Len(context_stack)]

\* the activation that called the innermost one (0 for render())
Caller == IF Len(frames) > 1 THEN frames[Len(frames) - 1].call ELSE 0

\* lines 253-264: apply_node_attributes on the current context, and for an
\* element other than <g> with a transform attribute on a pushed copy too
EnterStack(stack, style, pushed) ==
    IF pushed
    THEN Append([stack EXCEPT ![Len(stack)] = apply_node_attributes(@, style)],
                apply_node_attributes(push(apply_node_attributes(stack[Len(stack)], style)),
                                      style))
    ELSE [stack EXCEPT ![Len(stack)] = apply_node_attributes(@, style)]

\* lines 265-267: ctx.apply_transform(transform_str, self.svg_state)
EnterTransform(stack, has_transform, transform_str) ==
    IF has_transform THEN apply_transform(stack[Len(stack)].transform, transform_str)
    ELSE [transform |-> stack[Len(stack)].transform, raised |-> FALSE]

\* lines 269-278: the clip region of ctx
EnterClip(stack, clip_region) ==
    [stack EXCEPT ![Len(stack)].clip_region = ClipWith(@, clip_region)]

\* what the history keeps of a call: the context it found and, once it has
\* returned, the depth of the stack it left
Entry(n, role, caller, stack, painted) ==
    [node |-> n, role |-> role, caller |-> caller, depth |-> Len(stack),
     transform |-> stack[Len(stack)].transform,
     clip_region |-> stack[Len(stack)].clip_region,
     painted_clip |-> painted, exit |-> -1]

\* _render_node, lines 253-278
EnterNode ==
    /\ phase = "rendering"
    /\ Top.pc = "start"
    /\ \E has_transform \in {Has(nodes[Top.node].attributes, "transform")} :
       \E stack \in {EnterStack(context_stack, NodeStyle(nodes, Top.node),
                                has_transform /\ nodes[Top.node].tag # "g")} :
       \E t \in {EnterTransform(stack, has_transform,
                                get_attribute(nodes, Top.node, "transform", <<>>, FALSE))} :
       \E moved \in {[stack EXCEPT ![Len(stack)].transform = t.transform]} :
           IF t.raised
           THEN /\ context_stack' = moved
                /\ entered' = Append(entered, Entry(Top.node, Top.role, Caller, context_stack,
                                                    moved[Len(moved)].clip_region))
                /\ phase' = "render_raised"
                /\ frames' = frames
           ELSE \E clipped \in {EnterClip(moved,
                                    parse_clip_path(svg_state, moved[Len(moved)],
                                        get_attribute(nodes, Top.node, "clip-path", <<>>, TRUE)))} :
                /\ context_stack' = clipped
                /\ entered' = Append(entered, Entry(Top.node, Top.role, Caller, context_stack,
                                                    clipped[Len(clipped)].clip_region))
                /\ frames' = [frames EXCEPT ![Len(frames)].pc = "dispatch",
                                            ![Len(frames)].ctx = Len(clipped),
                                            ![Len(frames)].has_transform = has_transform]
                /\ phase' = phase
    /\ UNCHANGED <<docVars, stateVars, params, pass, width, height, buffer, first_buffer,
                   pureVars>>

\* lines 310-311: "if has_transform and node.tag != 'g': self._pop_context()"
AfterShape(stack, has_transform) == IF has_transform THEN pop_context(stack) ELSE stack

\* _render_node, lines 280-284: a group pushes a context for its children
EnterGroup ==
    /\ phase = "rendering"
    /\ Top.pc = "dispatch"
    /\ nodes[Top.node].tag = "g"
    /\ context_stack' = push_context(context_stack)
    /\ frames' = [frames EXCEPT ![Len(frames)].pc = "children"]
    /\ UNCHANGED <<docVars, stateVars, params, pass, width, height, buffer, entered,
                   first_buffer, pureVars, phase>>

\* _render_node, lines 289-290 and 310-311
RenderRect ==
    /\ phase = "rendering"
    /\ Top.pc = "dispatch"
    /\ nodes[Top.node].tag = "rect"
    /\ buffer' = render_rect(renderer, Current, Top.node)
    /\ context_stack' = AfterShape(context_stack, Top.has_transform)
    /\ frames' = [frames EXCEPT ![Len(frames)].pc = "children"]
    /\ UNCHANGED <<docVars, stateVars, params, pass, width, height, entered,
                   first_buffer, pureVars, phase>>

\* _render_node, lines 298-299 and 310-311
RenderLine ==
    /\ phase = "rendering"
    /\ Top.pc = "dispatch"
    /\ nodes[Top.node].tag = "line"
    /\ buffer' = render_line(renderer, Current, Top.node)
    /\ context_stack' = AfterShape(context_stack, Top.has_transform)
    /\ frames' = [frames EXCEPT ![Len(frames)].pc = "children"]
    /\ UNCHANGED <<docVars, stateVars, params, pass, width, height, entered,
                   first_buffer, pureVars, phase>>

\* _render_node, lines 301-302 and 310-311
RenderPolyline ==
    /\ phase = "rendering"
    /\ Top.pc = "dispatch"
    /\ nodes[Top.node].tag = "polyline"
    /\ buffer' = render_polyline(renderer, Current, Top.node)
    /\ context_stack' = AfterShape(context_stack, Top.has_transform)
    /\ frames' = [frames EXCEPT ![Len(frames)].pc = "children"]
    /\ UNCHANGED <<docVars, stateVars, params, pass, width, height, entered,
                   first_buffer, pureVars, phase>>

\* _render_node, lines 304-305 and 310-311; the exception of _parse_path
\* leaves _render_node and render()
RenderPath ==
    /\ phase = "rendering"
    /\ Top.pc = "dispatch"
    /\ nodes[Top.node].tag = "path"
    /\ \E done \in {render_path(renderer, Current, Top.node)} :
           IF done.raised
           THEN /\ phase' = "render_raised"
                /\ UNCHANGED <<buffer, context_stack, frames>>
           ELSE /\ buffer' = done.buffer
                /\ context_stack' = AfterShape(context_stack, Top.has_transform)
                /\ frames' = [frames EXCEPT ![Len(frames)].pc = "children"]
                /\ phase' = phase
    /\ UNCHANGED <<docVars, stateVars, params, pass, width, height, entered,
                   first_buffer, pureVars>>

\* lines 1616-1620 of _render_use
UseStack(stack, x, y) ==
    Append(stack, [push(stack[Len(stack)]) EXCEPT !.transform = UseTransform(@, x, y)])

\* _render_node, lines 307-308, and _render_use up to its call of _render_node
RenderUse ==
    /\ phase = "rendering"
    /\ Top.pc = "dispatch"
    /\ nodes[Top.node].tag = "use"
    /\ \E target \in {referenced_node(svg_state, Top.node)} :
           /\ target = None \/ Len(frames) < RecursionLimit
           /\ IF target = None
              THEN /\ context_stack' = AfterShape(context_stack, Top.has_transform)
                   /\ frames' = [frames EXCEPT ![Len(frames)].pc = "children"]
              ELSE /\ context_stack' =
                          UseStack(context_stack,
                              get_normalized_attribute(nodes, Top.node, "x", R(0),
                                                       viewport_width, viewport_height),
                              get_normalized_attribute(nodes, Top.node, "y", R(0),
                                                       viewport_width, viewport_height))
                   /\ frames' = Append([frames EXCEPT ![Len(frames)].pc = "in_use"],
                                       Frame(target, Len(entered) + 1, "use"))
    /\ UNCHANGED <<docVars, stateVars, params, pass, width, height, buffer, entered,
                   first_buffer, pureVars, phase>>

\* _render_use after _render_node(referenced_node) returned, line 1624, and
\* _render_node, lines 310-311
RenderUseReturn ==
    /\ phase = "rendering"
    /\ Top.pc = "in_use"
    /\ context_stack' = AfterShape(pop_context(context_stack), Top.has_transform)
    /\ frames' = [frames EXCEPT ![Len(frames)].pc = "children"]
    /\ UNCHANGED <<docVars, stateVars, params, pass, width, height, buffer, entered,
                   first_buffer, pureVars, phase>>

\* the tags _render_node dispatches on; circle and ellipse are outside the
\* documents of the model
ShapeTags == {"g", "rect", "circle", "ellipse", "line", "polyline", "path", "use"}

\* _render_node for any other element, lines 310-311
RenderOther ==
    /\ phase = "rendering"
    /\ Top.pc = "dispatch"
    /\ nodes[Top.node].tag \notin ShapeTags
    /\ context_stack' = AfterShape(context_stack, Top.has_transform)
    /\ frames' = [frames EXCEPT ![Len(frames)].pc = "children"]
    /\ UNCHANGED <<docVars, stateVars, params, pass, width, height, buffer, entered,
                   first_buffer, pureVars, phase>>

\* "for child in node.children: self._render_node(child)", lines 283-284 and
\* 313-315
RenderChild ==
    /\ phase = "rendering"
    /\ Top.pc = "children"
    /\ Top.next <= Len(nodes[Top.node].children)
    /\ Len(frames) < RecursionLimit
    /\ frames' = Append([frames EXCEPT ![Len(frames)].next = @ + 1],
                        Frame(nodes[Top.node].children[Top.next], Len(entered) + 1, "child"))
    /\ UNCHANGED <<docVars, stateVars, params, pass, width, height, buffer,
                   context_stack, entered, first_buffer, pureVars, phase>>

\* _render_node is about to be called, for a child or for the element a
\* <use> references
CallsRenderNode ==
    \/ Top.pc = "children" /\ Top.next <= Len(nodes[Top.node].children)
    \/ /\ Top.pc = "dispatch"
       /\ nodes[Top.node].tag = "use"
       /\ referenced_node(svg_state, Top.node) # None

\* the call of _render_node that would nest the activations beyond the
\* interpreter's recursion limit: RecursionError leaves render()
RecursionError ==
    /\ phase = "rendering"
    /\ Len(frames) >= RecursionLimit
    /\ CallsRenderNode
    /\ phase' = "recursion_error"
    /\ UNCHANGED <<docVars, stateVars, renderVars, pureVars>>

\* lines 285-286: after the children of a group, the transform of `ctx`, the
\* context the group found on entry, is set to the identity and the context
\* pushed for the children is popped
LeaveStack(stack, is_group, ctx) ==
    IF is_group THEN pop_context([stack EXCEPT ![ctx].transform = identity]) ELSE stack

\* _render_node returns
RenderReturn ==
    /\ phase = "rendering"
    /\ Top.pc = "children"
    /\ Top.next > Len(nodes[Top.node].children)
    /\ \E stack \in {LeaveStack(context_stack, nodes[Top.node].tag = "g", Top.ctx)} :
           /\ context_stack' = stack
           /\ entered' = [entered EXCEPT ![Top.call].exit = Len(stack)]
    /\ frames' = SubSeq(frames, 1, Len(frames) - 1)
    /\ phase' = IF Len(frames) = 1 THEN "rendered" ELSE phase
    /\ UNCHANGED <<docVars, stateVars, params, pass, width, height, buffer,
                   first_buffer, pureVars>>

\* the caller keeps the buffer and renders the same SVGState once more with
\* the same arguments
RenderAgain ==
    /\ phase = "rendered"
    /\ pass = 1
    /\ pass' = 2
    /\ first_buffer' = buffer
    /\ phase' = "validated"
    /\ UNCHANGED <<docVars, stateVars, params, width, height, buffer, context_stack,
                   frames, entered, pureVars>>

RenderStep ==
    \/ RejectInvalid
    \/ RendererInit
    \/ Render
    \/ EnterNode
    \/ EnterGroup
    \/ RenderRect
    \/ RenderLine
    \/ RenderPolyline
    \/ RenderPath
    \/ RenderUse
    \/ RenderUseReturn
    \/ RenderOther
    \/ RenderChild
    \/ RecursionError
    \/ RenderReturn
    \/ RenderAgain

(***************************************************************************)
(* The fragment lists of the parsing specification: every list of at most  *)
(* MaxFrags fragments over a small alphabet.                               *)
(***************************************************************************)
MaxFrags == 4

Str(c) == <<c>>

FragAlphabet ==
    {Open("svg", EmptyMap),
     Open("svg", [a \in {"fill", "x"} |-> IF a = "fill" THEN "red" ELSE Str("5")]),
     Open("g", [a \in {"fill"} |-> "blue"]),
     Open("g", [a \in {"x"} |-> Str("1")]),
     Self("svg", EmptyMap),
     Self("rect", EmptyMap),
     Self("rect", [a \in {"fill", "x"} |-> IF a = "fill" THEN "green" ELSE Str("2")]),
     Close("g"),
     Close("svg"),
     Close("rect")}

RECURSIVE SeqsUpTo(_, _)
SeqsUpTo(S, n) ==
    IF n = 0 THEN {<<>>}
    ELSE LET shorter == SeqsUpTo(S, n - 1)
         IN  shorter \cup {Append(s, x) : s \in {t \in shorter : Len(t) = n - 1}, x \in S}

InitParse ==
    /\ \E es \in SeqsUpTo(FragAlphabet, MaxFrags) : InitState(es)
    /\ IdleRender(DefaultParams)
    /\ IdleBlend
    /\ IdleCall

SpecParse == InitParse /\ [][ParseStep]_vars

(***************************************************************************)
(* The documents of the validation specification: a root whose width,      *)
(* height and viewBox are drawn from small sets of texts, followed by one  *)
(* of a few bodies; and three fragment lists without a root.               *)
(***************************************************************************)
PutIf(m, present, k, v) == IF present THEN Put(m, k, v) ELSE m

WidthTexts == {<<"1", "0">>, Str("0"), <<"-", "5">>, <<"a", "b", "c">>, <<"5", "0">>}

HeightTexts == {<<"2", "e", "m">>, Str("0"), <<"5", "0">>}

ViewBoxTexts ==
    {<<Str("0"), Str("0"), <<"2", "0">>, <<"2", "0">>>>,
     <<Str("0"), Str("0"), <<"1", "0", "0">>, <<"1", "0", "0">>>>,
     <<<<"1", "0">>, <<"-", "4">>, <<"2", "0">>, <<"4", "0">>>>,
     <<Str("0"), Str("0"), Str("0"), <<"2", "0">>>>,
     <<Str("0"), Str("0"), <<"2", "0">>, <<"-", "1">>>>,
     <<Str("0"), Str("0"), <<"2", "0">>>>,
     <<Str("0"), Str("0"), Str("x"), <<"2", "0">>>>}

RootAttrs(hasW, w, hasH, h, hasVb, vb) ==
    PutIf(PutIf(PutIf(EmptyMap, hasW, "width", w), hasH, "height", h), hasVb, "viewBox", vb)

ValidateBodies ==
    {<<Close("svg")>>,
     <<Self("circle", EmptyMap), Close("svg")>>,
     <<Self("rect", Put(Put(EmptyMap, "width", <<"-", "3">>), "height", Str("4"))),
       Close("svg")>>,
     <<Open("g", EmptyMap), Self("path", EmptyMap), Close("g"), Close("svg"),
       Self("rect", EmptyMap)>>,
     <<Self("polyline", EmptyMap)>>}

Prologs == {<<>>, <<Open("xml", EmptyMap)>>}

RootlessEntries == {<<>>, <<Open("xml", EmptyMap)>>, <<Self("rect", EmptyMap)>>}

ValidateEntries ==
    {pro \o <<Open("svg", RootAttrs(f[1], w, f[2], h, f[3], vb))>> \o body :
        pro \in Prologs, f \in BOOLEAN \X BOOLEAN \X BOOLEAN, w \in WidthTexts,
        h \in HeightTexts, vb \in ViewBoxTexts, body \in ValidateBodies}
    \cup RootlessEntries

InitValidate ==
    /\ \E es \in ValidateEntries : InitState(es)
    /\ IdleRender(DefaultParams)
    /\ IdleBlend
    /\ IdleCall

NextValidate == ParseStep \/ StateStep

SpecValidate == InitValidate /\ [][NextValidate]_vars

(***************************************************************************)
(* The compositing specification: blend_colors called once on a foreground *)
(* and a background.  The background is opaque, as every pixel of the      *)
(* buffer is, or both colours are fully transparent.                       *)
(***************************************************************************)
BlendColours ==
    {<<255, 0, 0>>, <<3, 3, 3>>, <<255, 255, 255>>, <<0, 128, 255>>, <<200, 100, 7>>}

BlendAlphas255 == {0, 5, 77, 128, 255}

Rgba(rgb, a) == <<rgb[1], rgb[2], rgb[3], a>>

InitBlend ==
    /\ InitState(<<>>)
    /\ IdleRender(DefaultParams)
    /\ \E fg \in BlendColours, bg \in BlendColours, a \in BlendAlphas255, opaque \in BOOLEAN :
           /\ (~opaque => a = 0)
           /\ foreground = Rgba(fg, a)
           /\ background = Rgba(bg, IF opaque THEN 255 ELSE 0)
    /\ blended = <<>>
    /\ IdleCall

\* the call blend_colors(foreground, background)
Blend ==
    /\ blended = <<>>
    /\ foreground # <<>>
    /\ blended' = blend_colors(foreground, background)
    /\ UNCHANGED <<docVars, stateVars, renderVars, foreground, background, callVars, phase>>

SpecBlend == InitBlend /\ [][Blend]_vars

(***************************************************************************)
(* The matrix specification: multiply or inverse called once on matrices   *)
(* drawn from a small set, and a point for transform_point.                *)
(***************************************************************************)
Matrices ==
    {identity,
     translate(R(2), R(-1)),
     scale(R(3), R(3)),
     scale(R(2), Rat(1, 2)),
     scale(R(0), R(1)),
     TransformMatrix(R(0), R(1), R(-1), R(0), R(0), R(0)),
     TransformMatrix(R(2), R(1), R(1), R(1), R(3), R(-2)),
     TransformMatrix(R(1), R(2), R(2), R(4), R(5), R(6))}

MatrixPoints == {<<R(0), R(0)>>, <<R(1), R(2)>>, <<R(-3), Rat(1, 2)>>}

InitMatrix ==
    /\ InitState(<<>>)
    /\ IdleRender(DefaultParams)
    /\ IdleBlend
    /\ \/ /\ callee = "multiply"
          /\ \E A \in Matrices, B \in Matrices, p \in MatrixPoints :
                 args = [A |-> A, B |-> B, p |-> p]
       \/ /\ callee = "inverse"
          /\ \E M \in Matrices : args = [A |-> M]
    /\ result = <<>>

\* the calls A.multiply(B), identity().multiply(A) and A.multiply(identity())
Multiply ==
    /\ callee = "multiply"
    /\ callee' = "multiplied"
    /\ result' = [product |-> multiply(args.A, args.B),
                  left |-> multiply(identity, args.A),
                  right |-> multiply(args.A, identity)]
    /\ UNCHANGED <<docVars, stateVars, renderVars, blendVars, args, phase>>

\* the call A.inverse()
Inverse ==
    /\ callee = "inverse"
    /\ callee' = "inverted"
    /\ result' = inverse(args.A)
    /\ UNCHANGED <<docVars, stateVars, renderVars, blendVars, args, phase>>

NextMatrix == Multiply \/ Inverse

SpecMatrix == InitMatrix /\ [][NextMatrix]_vars

(***************************************************************************)
(* The unit specification: normalize_unit called once on a value text, a   *)
(* number text (or none) followed by a unit suffix in some letter case,    *)
(* for a length or an angle, with or without a viewport.                   *)
(***************************************************************************)
NumberTexts == {<<>>, <<"2">>, <<"-", "2">>, <<".", "5">>, <<"1", "0">>}

UnitTexts ==
    {<<>>, <<"e", "x">>, <<"E", "X">>, <<"E", "x">>, <<"e", "X">>,
     <<"e", "m">>, <<"E", "M">>, <<"E", "m">>, <<"p", "x">>, <<"P", "X">>,
     <<"p", "t">>, <<"P", "T">>, <<"p", "c">>, <<"i", "n">>, <<"c", "m">>, <<"C", "m">>,
     <<"m", "m">>, <<"M", "M">>, <<"%">>, <<"x", "x">>, <<"a", "b", "c">>,
     <<"e", "x", "e", "x">>}

UnitViewports == {<<NoVal, NoVal>>, <<R(100), R(50)>>}

InitUnit ==
    /\ InitState(<<>>)
    /\ IdleRender(DefaultParams)
    /\ IdleBlend
    /\ callee = "normalize_unit"
    /\ \E number \in NumberTexts, unit \in UnitTexts, unit_type \in {"length", "angle"},
          viewport \in UnitViewports :
           args = [number |-> number, unit |-> unit, unit_type |-> unit_type,
                   viewport_width |-> viewport[1], viewport_height |-> viewport[2]]
    /\ result = <<>>

\* "normalize_unit(value, unit_type, viewport_width, viewport_height)"
NormalizeUnit ==
    /\ callee = "normalize_unit"
    /\ callee' = "normalized"
    /\ result' = normalize_unit(args.number \o args.unit, args.unit_type,
                                args.viewport_width, args.viewport_height)
    /\ UNCHANGED <<docVars, stateVars, renderVars, blendVars, args, phase>>

NextUnit == NormalizeUnit

SpecUnit == InitUnit /\ [][NextUnit]_vars

(***************************************************************************)
(* The rendering specification: the whole pipeline of main.py, SVGState    *)
(* and then two Renderers over it, on a few documents and arguments.  The  *)
(* numbers of the documents are small integers and halves.                 *)
(***************************************************************************)
\* the attribute dict of a fragment, from its key="value" pairs
Attrs(ps) ==
    [k \in {ps[i][1] : i \in 1..Len(ps)} |->
        ps[CHOOSE i \in 1..Len(ps) : ps[i][1] = k][2]]

Transform(func_name, ps) == [func_name |-> func_name, params |-> ps]

Cmd(c, numbers) == [cmd |-> c, numbers |-> numbers]

RED == <<"r", "e", "d">>

GREEN == <<"g", "r", "e", "e", "n">>

HEXBLUE == <<"#", "0", "0", "f">>

HALF == <<"0", ".", "5">>

Url(id) == <<"u", "r", "l", "(", "#">> \o id \o <<")">>

Root65 == Open("svg", Attrs(<<<<"width", Str("6")>>, <<"height", Str("5")>>>>))

\* one rectangle, no viewBox, no transform
RectDocs ==
    {<<Root65,
       Self("rect", Attrs(<<<<"x", x>>, <<"y", Str("1")>>, <<"width", w>>,
                            <<"height", Str("2")>>, <<"fill", fill>>>>)),
       Close("svg")>> : x \in {Str("0"), Str("1")}, w \in {Str("2"), Str("5")},
                        fill \in {RED, HEXBLUE}}

\* a group inside a translated group, then a rectangle of the outer group
NestedDoc ==
    <<Root65,
      Open("g", Attrs(<<<<"transform", <<Transform("translate", <<Str("2"), Str("0")>>)>>>>>>)),
      Open("g", EmptyMap), Close("g"),
      Self("rect", Attrs(<<<<"width", Str("1")>>, <<"height", Str("1")>>, <<"fill", RED>>>>)),
      Close("g"), Close("svg")>>

ClipPathC ==
    <<Open("clipPath", Attrs(<<<<"id", Str("c")>>>>)),
      Self("rect", Attrs(<<<<"width", Str("2")>>, <<"height", Str("2")>>>>)),
      Close("clipPath")>>

\* a clipped rectangle, then a rectangle without clip-path
ClipDoc ==
    <<Root65>> \o ClipPathC \o
    <<Self("rect", Attrs(<<<<"clip-path", Url(Str("c"))>>, <<"width", Str("4")>>,
                           <<"height", Str("3")>>, <<"fill", RED>>>>)),
      Self("rect", Attrs(<<<<"x", Str("3")>>, <<"y", Str("3")>>, <<"width", Str("2")>>,
                           <<"height", Str("1")>>, <<"fill", HEXBLUE>>>>)),
      Close("svg")>>

\* a clipped group: its rectangle inherits the clip-path; the clip path has
\* two rectangles and gives a polygon
ClipGroupDoc ==
    <<Root65,
      Open("clipPath", Attrs(<<<<"id", Str("p")>>, <<"clip-rule", EVENODD>>>>)),
      Self("rect", Attrs(<<<<"width", Str("3")>>, <<"height", Str("3")>>>>)),
      Self("rect", Attrs(<<<<"x", Str("1")>>, <<"y", Str("1")>>, <<"width", Str("1")>>,
                           <<"height", Str("1")>>>>)),
      Close("clipPath"),
      Open("g", Attrs(<<<<"clip-path", Url(Str("p"))>>>>)),
      Self("rect", Attrs(<<<<"width", Str("5")>>, <<"height", Str("4")>>, <<"fill", GREEN>>>>)),
      Close("g"), Close("svg")>>

PathOf1(d, fill) == Self("path", Attrs(<<<<"d", d>>, <<"fill", fill>>>>))

\* M 0 0 L 4 0 l 0 3 H 1 v -1 A 0 0 0 0 0 0 1 Z
PathDoc ==
    <<Root65,
      PathOf1(<<Cmd("M", <<Str("0"), Str("0")>>), Cmd("L", <<Str("4"), Str("0")>>),
                Cmd("l", <<Str("0"), Str("3")>>), Cmd("H", <<Str("1")>>),
                Cmd("v", <<<<"-", "1">>>>),
                Cmd("A", <<Str("0"), Str("0"), Str("0"), Str("0"), Str("0"), Str("0"),
                           Str("1")>>),
                Cmd("Z", <<>>)>>, GREEN),
      Close("svg")>>

\* M 1 2 3: an odd number of coordinates after M; a rectangle follows
OddPathDoc ==
    <<Root65, PathOf1(<<Cmd("M", <<Str("1"), Str("2"), Str("3")>>)>>, RED),
      Self("rect", Attrs(<<<<"width", Str("1")>>, <<"height", Str("1")>>>>)),
      Close("svg")>>

\* M 1 1 A 1 1 0 0 0 1 1: an arc that ends where it starts
ArcDoc ==
    <<Root65,
      PathOf1(<<Cmd("M", <<Str("1"), Str("1")>>),
                Cmd("A", <<Str("1"), Str("1"), Str("0"), Str("0"), Str("0"), Str("1"),
                           Str("1")>>)>>, RED),
      Close("svg")>>

\* transform="translate(a)"
BadTransformDoc ==
    <<Root65,
      Self("rect", Attrs(<<<<"transform", <<Transform("translate", <<Str("a")>>)>>>>,
                           <<"width", Str("1")>>, <<"height", Str("1")>>>>)),
      Self("rect", Attrs(<<<<"x", Str("2")>>, <<"width", Str("1")>>, <<"height", Str("1")>>>>)),
      Close("svg")>>

\* a translated rectangle in a group, referenced by a <use>; a <use> without
\* href and one whose href names no node
UseDoc ==
    <<Root65,
      Open("g", EmptyMap),
      Self("rect", Attrs(<<<<"id", Str("r")>>,
                           <<"transform", <<Transform("translate", <<Str("1"), Str("0")>>)>>>>,
                           <<"width", Str("1")>>, <<"height", Str("2")>>, <<"fill", RED>>>>)),
      Close("g"),
      Self("use", Attrs(<<<<"href", <<"#", "r">>>>, <<"x", Str("2")>>>>)),
      Self("use", EmptyMap),
      Self("use", Attrs(<<<<"xlink:href", <<"#", "z">>>>>>)),
      Close("svg")>>

\* translucent paint, a fractional viewport and a scaled rectangle
OpacityDoc ==
    <<Open("svg", Attrs(<<<<"width", <<"6", ".", "5">>>>, <<"height", Str("4")>>>>)),
      Self("rect", Attrs(<<<<"width", Str("3")>>, <<"height", Str("2")>>, <<"fill", RED>>,
                           <<"fill-opacity", HALF>>>>)),
      Self("rect", Attrs(<<<<"transform",
                             <<Transform("scale", <<Str("2"), Str("1")>>),
                               Transform("matrix", <<Str("1"), Str("0"), Str("0"), Str("1"),
                                                     HALF, Str("1")>>)>>>>,
                           <<"x", Str("1")>>, <<"width", Str("1")>>, <<"height", Str("2")>>,
                           <<"fill", HEXBLUE>>, <<"opacity", HALF>>>>)),
      Close("svg")>>

\* a viewBox half the size of the viewport
ViewBoxDoc ==
    <<Open("svg", Attrs(<<<<"viewBox", <<Str("0"), Str("0"), Str("3"), Str("3")>>>>,
                          <<"width", Str("6")>>, <<"height", Str("6")>>>>)),
      Self("rect", Attrs(<<<<"x", Str("1")>>, <<"y", Str("1")>>, <<"width", Str("1")>>,
                           <<"height", Str("1")>>, <<"fill", GREEN>>>>)),
      Close("svg")>>

\* a fragment before the root and one after it
PrologDoc ==
    <<Open("xml", EmptyMap), Root65, Close("svg"),
      Self("rect", Attrs(<<<<"width", Str("1")>>>>))>>

\* <svg width=w height=h><line x1 y1 x2 y2 stroke="red" stroke-dasharray
\* stroke-dashoffset/></svg>; the dash offset <<>> stands for no attribute
DashedLine(w, h, ends, dasharray, dashoffset) ==
    <<Open("svg", Attrs(<<<<"width", w>>, <<"height", h>>>>)),
      Self("line",
           Attrs(<<<<"x1", ends[1]>>, <<"y1", ends[2]>>, <<"x2", ends[3]>>,
                   <<"y2", ends[4]>>, <<"stroke", RED>>,
                   <<"stroke-dasharray", dasharray>>>>
                 \o (IF dashoffset = <<>> THEN <<>>
                     ELSE <<<<"stroke-dashoffset", dashoffset>>>>))),
      Close("svg")>>

\* the dash lists 4,2 and 3 and 2,0,1,3 and none
DashLists ==
    {<<Str("4"), Str("2")>>, <<Str("3")>>, <<Str("2"), Str("0"), Str("1"), Str("3")>>,
     <<NONE>>}

DashOffsets == {<<>>, Str("1"), <<"-", "3">>, <<"1", ".", "5">>}

\* a horizontal line from (0,1) to (12,1) on 14 by 3, and a vertical line
\* from (1,11) up to (1,1) on 3 by 12
LineDocs ==
    {DashedLine(<<"1", "4">>, Str("3"), <<Str("0"), Str("1"), <<"1", "2">>, Str("1")>>,
                dasharray, dashoffset) :
        dasharray \in DashLists, dashoffset \in DashOffsets}
    \cup {DashedLine(Str("3"), <<"1", "2">>, <<Str("1"), <<"1", "1">>, Str("1"), Str("1")>>,
                     dasharray, dashoffset) :
             dasharray \in DashLists, dashoffset \in {<<>>, Str("1")}}

\* a rectangle whose clip-path names no node, one whose clip-path names a
\* <rect>, and the <rect> it names
DanglingClipDoc ==
    <<Root65,
      Self("rect", Attrs(<<<<"id", Str("r")>>, <<"x", Str("4")>>, <<"y", Str("3")>>,
                           <<"width", Str("1")>>, <<"height", Str("1")>>,
                           <<"fill", GREEN>>>>)),
      Self("rect", Attrs(<<<<"clip-path", Url(Str("z"))>>, <<"width", Str("1")>>,
                           <<"height", Str("1")>>, <<"fill", RED>>>>)),
      Self("rect", Attrs(<<<<"clip-path", Url(Str("r"))>>, <<"y", Str("3")>>,
                           <<"width", Str("1")>>, <<"height", Str("1")>>,
                           <<"fill", HEXBLUE>>>>)),
      Close("svg")>>

\* the attributes of a dashed red stroke
DashedStroke(dasharray, dashoffset) ==
    <<<<"stroke", RED>>, <<"fill", NONE>>, <<"stroke-dasharray", dasharray>>>>
    \o (IF dashoffset = <<>> THEN <<>> ELSE <<<<"stroke-dashoffset", dashoffset>>>>)

Root57 == Open("svg", Attrs(<<<<"width", Str("5")>>, <<"height", Str("7")>>>>))

\* <polyline points="0,1 3,1 3,6"/> and <path d="M 0 1 L 3 1 L 3 6"/>, from
\* (0,1) right to (3,1) and down to (3,6), with a dashed stroke
PolylineDocs ==
    {<<Root57,
       Self("polyline",
            Attrs(<<<<"points", <<Str("0"), Str("1"), Str("3"), Str("1"),
                                  Str("3"), Str("6")>>>>>>
                  \o DashedStroke(dasharray, dashoffset))),
       Close("svg")>> :
        dasharray \in {<<Str("2"), Str("2")>>, <<NONE>>}, dashoffset \in {<<>>, Str("1")}}
    \cup
    {<<Root57,
       Self("path",
            Attrs(<<<<"d", <<Cmd("M", <<Str("0"), Str("1")>>), Cmd("L", <<Str("3"), Str("1")>>),
                             Cmd("L", <<Str("3"), Str("6")>>)>>>>>>
                  \o DashedStroke(dasharray, dashoffset))),
       Close("svg")>> :
        dasharray \in {<<Str("2"), Str("2")>>, <<NONE>>}, dashoffset \in {<<>>, Str("1")}}

\* a clipped group holding a rectangle with a clip-path of its own: the
\* rectangle is painted under the intersection of the two regions
NestedClipDoc ==
    <<Root65>> \o ClipPathC \o
    <<Open("clipPath", Attrs(<<<<"id", Str("d")>>>>)),
      Self("rect", Attrs(<<<<"x", Str("1")>>, <<"width", Str("3")>>, <<"height", Str("3")>>>>)),
      Close("clipPath"),
      Open("g", Attrs(<<<<"clip-path", Url(Str("c"))>>>>)),
      Self("rect", Attrs(<<<<"clip-path", Url(Str("d"))>>, <<"width", Str("5")>>,
                           <<"height", Str("4")>>, <<"fill", RED>>>>)),
      Close("g"), Close("svg")>>

\* a clipPath with one rectangle that no element references, and no other
\* shape
UnusedClipDoc == <<Root65>> \o ClipPathC \o <<Close("svg")>>

\* a red rectangle with opacity 0.5 and fill-opacity 1
HalfOpacityDoc ==
    <<Root65,
      Self("rect", Attrs(<<<<"width", Str("2")>>, <<"height", Str("2")>>, <<"fill", RED>>,
                           <<"opacity", HALF>>, <<"fill-opacity", Str("1")>>>>)),
      Close("svg")>>

\* a <use> that references itself
SelfUseDoc ==
    <<Root65,
      Self("use", Attrs(<<<<"id", Str("a")>>, <<"href", <<"#", "a">>>>>>)),
      Close("svg")>>

\* a <use> that references the group it is in
AncestorUseDoc ==
    <<Root65,
      Open("g", Attrs(<<<<"id", Str("a")>>>>)),
      Self("use", Attrs(<<<<"href", <<"#", "a">>>>>>)),
      Close("g"), Close("svg")>>

\* two <use> elements that reference one another
MutualUseDoc ==
    <<Root65,
      Self("use", Attrs(<<<<"id", Str("a")>>, <<"href", <<"#", "b">>>>>>)),
      Self("use", Attrs(<<<<"id", Str("b")>>, <<"href", <<"#", "a">>>>>>)),
      Close("svg")>>

\* a translated root with a rectangle in it
TransformedRootDoc ==
    <<Open("svg", Attrs(<<<<"width", Str("6")>>, <<"height", Str("5")>>,
                          <<"transform",
                            <<Transform("translate", <<Str("2"), Str("0")>>)>>>>>>)),
      Self("rect", Attrs(<<<<"width", Str("1")>>, <<"height", Str("1")>>, <<"fill", RED>>>>)),
      Close("svg")>>

RenderDocs ==
    RectDocs \cup LineDocs \cup PolylineDocs \cup
    {NestedDoc, ClipDoc, ClipGroupDoc, PathDoc, OddPathDoc, ArcDoc, BadTransformDoc,
     UseDoc, OpacityDoc, ViewBoxDoc, PrologDoc, DanglingClipDoc,
     TransformedRootDoc, NestedClipDoc, HalfOpacityDoc, SelfUseDoc, AncestorUseDoc,
     MutualUseDoc, UnusedClipDoc,
     <<Self("rect", EmptyMap)>>}

\* the width given to Renderer(...) when one is given
OverrideWidth == 8

RenderParams ==
    {[width |-> w, height |-> 0, background_color |-> bg, anti_aliasing |-> aa] :
        w \in {0, OverrideWidth}, bg \in {<<255, 255, 255>>, <<0, 64, 0>>},
        aa \in BOOLEAN}

Init ==
    /\ \E es \in RenderDocs : InitState(es)
    /\ \E p \in RenderParams : IdleRender(p)
    /\ IdleBlend
    /\ IdleCall

Next == ParseStep \/ StateStep \/ RenderStep

Spec == Init /\ [][Next]_vars

(***************************************************************************)
(* The polygon specification: _point_in_polygon called, as the fill loop   *)
(* of _render_path calls it, on the pixel points of a path and a pixel.    *)
(***************************************************************************)
\* M p1 L p2 L p3 ..., closed with Z or not; the coordinates are digits
PolyPath(ps, closed) ==
    <<Cmd("M", <<Str(ps[1][1]), Str(ps[1][2])>>)>>
    \o [i \in 1..(Len(ps) - 1) |-> Cmd("L", <<Str(ps[i + 1][1]), Str(ps[i + 1][2])>>)]
    \o (IF closed THEN <<Cmd("Z", <<>>)>> ELSE <<>>)

\* the pentagram (4,0) (6,7) (0,3) (8,3) (2,7), whose centroid is (4,4)
StarPoints == <<<<"4", "0">>, <<"6", "7">>, <<"0", "3">>, <<"8", "3">>, <<"2", "7">>>>

StarPath == PolyPath(StarPoints, TRUE)

LeftTriangle == <<<<"0", "0">>, <<"4", "0">>, <<"4", "4">>>>

RightTriangle == <<<<"6", "0">>, <<"8", "0">>, <<"8", "4">>>>

OuterSquare == <<<<"0", "0">>, <<"8", "0">>, <<"8", "8">>, <<"0", "8">>>>

InnerSquare == <<<<"2", "2">>, <<"6", "2">>, <<"6", "6">>, <<"2", "6">>>>

\* the path data of the specification: one subpath, and two subpaths that
\* are both closed or both left open
PolygonPaths ==
    {StarPath, PolyPath(StarPoints, FALSE), PolyPath(InnerSquare, TRUE),
     PolyPath(LeftTriangle, FALSE),
     PolyPath(LeftTriangle, TRUE) \o PolyPath(RightTriangle, TRUE),
     PolyPath(LeftTriangle, FALSE) \o PolyPath(RightTriangle, FALSE),
     PolyPath(OuterSquare, TRUE) \o PolyPath(InnerSquare, TRUE),
     PolyPath(OuterSquare, FALSE) \o PolyPath(InnerSquare, FALSE)}

NONZERO == <<"n", "o", "n", "z", "e", "r", "o">>

\* the largest pixel coordinate of the specification
MaxCoord == 8

\* lines 1507: int_pixel_points, under the identity transform
IntPixelPoints(points) ==
    [i \in 1..Len(points) |->
        IF points[i].dummy THEN DummyPixel
        ELSE RoundPoint(<<points[i].x, points[i].y>>)]

InitPolygon ==
    /\ InitState(<<>>)
    /\ IdleRender(DefaultParams)
    /\ IdleBlend
    /\ callee = "point_in_polygon"
    /\ \E d \in PolygonPaths, fill_rule \in {EVENODD, NONZERO},
          x \in 0..MaxCoord, y \in 0..MaxCoord :
           args = [d |-> d, fill_rule |-> fill_rule, x |-> x, y |-> y]
    /\ result = <<>>

\* lines 1511-1516: "if self._point_in_polygon(px, py, int_pixel_points,
\* fill_rule)" for the points _parse_path gave
PointInPolygon ==
    /\ callee = "point_in_polygon"
    /\ callee' = "tested"
    /\ \E points \in {IntPixelPoints(parse_path(args.d).points)} :
           result' = [points |-> points,
                      inside |-> point_in_polygon(args.x, args.y, points, args.fill_rule)]
    /\ UNCHANGED <<docVars, stateVars, renderVars, blendVars, args, phase>>

NextPolygon == PointInPolygon

SpecPolygon == InitPolygon /\ [][NextPolygon]_vars

(***************************************************************************)
(* The path specification: _parse_path called on path data that starts at  *)
(* M 0 0 and goes on with up to MaxCommands commands.                      *)
(***************************************************************************)
MaxCommands == 3

\* the commands after the first move-to
PathCommands ==
    {Cmd("C", <<Str("0"), Str("2"), Str("2"), Str("3"), Str("3"), Str("3")>>),
     Cmd("c", <<Str("1"), Str("0"), Str("2"), Str("1"), Str("2"), Str("2")>>),
     Cmd("S", <<Str("3"), Str("1"), Str("4"), Str("0")>>),
     Cmd("s", <<Str("1"), Str("0"), Str("1"), Str("1"),
                Str("0"), Str("1"), Str("1"), Str("1")>>),
     Cmd("Q", <<Str("2"), Str("0"), Str("2"), Str("2")>>),
     Cmd("T", <<Str("3"), Str("3")>>),
     Cmd("t", <<Str("1"), Str("1"), Str("1"), Str("0")>>),
     Cmd("L", <<Str("1"), Str("2")>>),
     Cmd("H", <<Str("3")>>),
     Cmd("v", <<Str("1")>>),
     Cmd("A", <<Str("0"), Str("0"), Str("0"), Str("0"), Str("0"), Str("2"), Str("1")>>),
     Cmd("M", <<Str("1"), Str("0")>>),
     Cmd("Z", <<>>)}

PathDatas ==
    {<<Cmd("M", <<Str("0"), Str("0")>>)>> \o rest :
        rest \in UNION {[1..n -> PathCommands] : n \in 1..MaxCommands}}

InitPath ==
    /\ InitState(<<>>)
    /\ IdleRender(DefaultParams)
    /\ IdleBlend
    /\ callee = "parse_path"
    /\ \E d \in PathDatas : args = [d |-> d]
    /\ result = <<>>

\* "points = self._parse_path(path_str, viewport_w, viewport_h)"
ParsePath ==
    /\ callee = "parse_path"
    /\ callee' = "parsed"
    /\ result' = parse_path(args.d)
    /\ UNCHANGED <<docVars, stateVars, renderVars, blendVars, args, phase>>

NextPath == ParsePath

SpecPath == InitPath /\ [][NextPath]_vars

(***************************************************************************)
(* The curve specification: _subdivide_cubic_bezier and                    *)
(* _subdivide_quadratic_bezier called, as _parse_path calls them, on       *)
(* control points.  Beside the points returned, the result keeps the       *)
(* largest `depth` a call of the inner subdivide was made with.            *)
(***************************************************************************)
\* control points near one another
NearPoints == {<<R(x), R(y)>> : x \in 0..2, y \in 0..1}

\* the distance at which a curve is not yet flat after ten halvings
Far == 2 ^ 19

\* a parabola and the same parabola as a cubic, both along the x axis
FarCurves ==
    {<<<<R(0), R(0)>>, <<R(0), R(0)>>, <<R(Far), R(0)>>>>,
     <<<<R(0), R(0)>>, <<R(0), R(0)>>, <<R(Far), R(0)>>, <<R(3 * Far), R(0)>>>>}

ControlPoints ==
    [1..3 -> NearPoints] \cup [1..4 -> NearPoints] \cup FarCurves

InitBezier ==
    /\ InitState(<<>>)
    /\ IdleRender(DefaultParams)
    /\ IdleBlend
    /\ callee = "subdivide"
    /\ \E ps \in ControlPoints : args = ps
    /\ result = <<>>

\* "curve_points = self._subdivide_cubic_bezier((x, y), (x1, y1), (x2, y2), (x3, y3))"
SubdivideCubicBezier ==
    /\ callee = "subdivide"
    /\ Len(args) = 4
    /\ callee' = "subdivide_cubic_bezier"
    /\ result' = [points |-> subdivide_cubic_bezier(args[1], args[2], args[3], args[4]),
                  depth |-> CubicDepth(args[1], args[2], args[3], args[4], 0)]
    /\ UNCHANGED <<docVars, stateVars, renderVars, blendVars, args, phase>>

\* "curve_points = self._subdivide_quadratic_bezier((x, y), (x1, y1), (x2, y2))"
SubdivideQuadraticBezier ==
    /\ callee = "subdivide"
    /\ Len(args) = 3
    /\ callee' = "subdivide_quadratic_bezier"
    /\ result' = [points |-> subdivide_quadratic_bezier(args[1], args[2], args[3]),
                  depth |-> QuadraticDepth(args[1], args[2], args[3], 0)]
    /\ UNCHANGED <<docVars, stateVars, renderVars, blendVars, args, phase>>

NextBezier == SubdivideCubicBezier \/ SubdivideQuadraticBezier

SpecBezier == InitBezier /\ [][NextBezier]_vars

(***************************************************************************)
(* The transform specification: apply_transform called once on a context   *)
(* whose matrix is one of Matrices, with a transform attribute of at most  *)
(* MaxFunctions functions.                                                 *)
(***************************************************************************)
MaxFunctions == 2

\* translate(2 1), translate(2), scale(3), scale(2 0.5), matrix(2 1 1 1 3 -2)
TransformFunctions ==
    {Transform("translate", <<Str("2"), Str("1")>>),
     Transform("translate", <<Str("2")>>),
     Transform("scale", <<Str("3")>>),
     Transform("scale", <<Str("2"), <<"0", ".", "5">>>>),
     Transform("matrix", <<Str("2"), Str("1"), Str("1"), Str("1"), Str("3"), <<"-", "2">>>>)}

InitTransform ==
    /\ InitState(<<>>)
    /\ IdleRender(DefaultParams)
    /\ IdleBlend
    /\ callee = "apply_transform"
    /\ \E A \in Matrices, fs \in SeqsUpTo(TransformFunctions, MaxFunctions) :
           args = [transform |-> A, transform_str |-> fs]
    /\ result = <<>>

\* "ctx.apply_transform(transform_str, self.svg_state)"
ApplyTransform ==
    /\ callee = "apply_transform"
    /\ callee' = "applied"
    /\ result' = apply_transform(args.transform, args.transform_str)
    /\ UNCHANGED <<docVars, stateVars, renderVars, blendVars, args, phase>>

NextTransform == ApplyTransform

SpecTransform == InitTransform /\ [][NextTransform]_vars

(***************************************************************************)
(* The colour specification: parse_color called once, without a node, on   *)
(* a colour text: a name, "#" and up to MaxHexDigits characters, "#" and    *)
(* eight characters, or another word.                                      *)
(***************************************************************************)
MaxHexDigits == 6

HexAlphabet == {"0", "f", "g"}

ColorTexts ==
    {<<"#">> \o digits : digits \in SeqsUpTo(HexAlphabet, MaxHexDigits)}
    \cup {<<"#", "f", "f", "0", "0", "0", "0">> \o tail : tail \in [1..2 -> HexAlphabet]}
    \cup {<<"#", "F", "0", "0">>, RED, <<"R", "e", "d">>, <<" ", "r", "e", "d", " ">>,
          <<"b", "l", "u", "e">>, <<"r", "e", "d", "d">>, <<"x">>, <<" ">>}

InitColor ==
    /\ InitState(<<>>)
    /\ IdleRender(DefaultParams)
    /\ IdleBlend
    /\ callee = "parse_color"
    /\ \E text \in ColorTexts : args = text
    /\ result = <<>>

\* "color = parse_color(color_str, node)"
ParseColor ==
    /\ callee = "parse_color"
    /\ callee' = "parsed_color"
    /\ result' = parse_color(args, nodes, None)
    /\ UNCHANGED <<docVars, stateVars, renderVars, blendVars, args, phase>>

NextColor == ParseColor

SpecColor == InitColor /\ [][NextColor]_vars

(***************************************************************************)
(* Claims about the document model.                                        *)
(***************************************************************************)

\* C5: while the tree is built, a closing fragment whose tag differs from the
\* tag of the node under the cursor is ignored (the cursor stays, no node is
\* added); a closing fragment whose tag matches moves the cursor to the parent.
C5_MismatchedCloseIgnored ==
    [][(phase = "body" /\ pos < Len(entries) /\ r # None /\ is_terminator(NextEntry))
        => /\ nodes' = nodes
           /\ r' = IF compare_tag(r, NextEntry) THEN nodes[r].parent ELSE r]_vars

\* the path from a node up to the root, the node itself first
RECURSIVE PathToRoot(_, _)
PathToRoot(ns, n) == IF n = None THEN <<>> ELSE <<n>> \o PathToRoot(ns, ns[n].parent)

\* the nearest node on the path from n to the root that defines attr (None if
\* there is none)
NearestDefiner(ns, n, attr) ==
    LET path == PathToRoot(ns, n)
        defs == {k \in 1..Len(path) : attr \in DOMAIN ns[path[k]].attributes}
    IN  IF defs = {} THEN None
        ELSE path[CHOOSE k \in defs : \A j \in defs : k <= j]

ClaimAttrs == {"fill", "x"}

AttrDefault(attr) == IF attr = "fill" THEN "unset" ELSE Str("?")

\* C6: get_attribute with inheritance returns, for an attribute of the
\* inheritable set, the value of the nearest node from the node itself up to
\* the root that defines it, and for any other attribute only the node's own
\* value; the default where there is no such value.
C6_NearestDefinerWins ==
    \A n \in 1..Len(nodes) : \A attr \in ClaimAttrs :
        LET got == get_attribute(nodes, n, attr, AttrDefault(attr), TRUE)
            d == NearestDefiner(nodes, n, attr)
        IN  IF attr \in inherited_attrs
            THEN got = IF d = None THEN AttrDefault(attr) ELSE nodes[d].attributes[attr]
            ELSE got = IF attr \in DOMAIN nodes[n].attributes
                       THEN nodes[n].attributes[attr] ELSE AttrDefault(attr)

\* a node that takes fill from its parent although the root defines another
\* fill, and gets the default for x although the root defines x
C6_Witness ==
    \E n \in 1..Len(nodes) :
        /\ DOMAIN nodes[n].attributes = {}
        /\ nodes[n].parent # None
        /\ nodes[nodes[n].parent].parent = svg_tree
        /\ NearestDefiner(nodes, n, "fill") = nodes[n].parent
        /\ "fill" \in DOMAIN nodes[svg_tree].attributes
        /\ "x" \in DOMAIN nodes[svg_tree].attributes
        /\ get_attribute(nodes, n, "fill", "unset", TRUE) = "blue"
        /\ get_attribute(nodes, n, "x", Str("?"), TRUE) = Str("?")

(***************************************************************************)
(* Claims about validation.                                                *)
(***************************************************************************)
HardError ==
    \/ svg_tree = None
    \/ RLe(viewport_width, R(0))
    \/ RLe(viewport_height, R(0))
    \/ (viewbox # <<>> /\ (RLe(viewbox[3], R(0)) \/ RLe(viewbox[4], R(0))))

\* C7: the validation report holds a hard error, and is_valid() is false,
\* exactly when the document has no root svg element, or its resolved viewport
\* width or height is not positive, or its viewBox width or height is not
\* positive; warnings never make is_valid() false.
C7_InvalidExactlyOnHardError ==
    phase = "validated" =>
        /\ (~is_valid <=> HardError)
        /\ (validation_errors # <<>> <=> HardError)

\* a document with advisory warnings only, which is valid
C7_Witness ==
    /\ phase = "validated"
    /\ Len(validation_warnings) >= 1
    /\ viewbox # <<>>
    /\ is_valid

(***************************************************************************)
(* Claims about compositing.                                               *)
(***************************************************************************)

\* the straight blend f*a + b*(1-a) with a = alpha/255, truncated
StraightBlend(f, b, alpha) == (f * alpha + b * (255 - alpha)) \div 255

\* C10: over an opaque background blend_colors returns alpha 255 and, for each
\* channel, the straight blend of foreground and background truncated to an
\* integer (so foreground alpha 255 gives the foreground and alpha 0 the
\* background); when both alphas are 0 it returns (0, 0, 0, 0).
C10_TruncatedStraightBlend ==
    blended # <<>> =>
        /\ background[4] = 255 =>
               /\ blended[4] = 255
               /\ \A c \in 1..3 :
                      blended[c] = StraightBlend(foreground[c], background[c], foreground[4])
        /\ (foreground[4] = 0 /\ background[4] = 0) => blended = <<0, 0, 0, 0>>

(***************************************************************************)
(* Claims about the renderer.                                              *)
(***************************************************************************)
Returned(i) == entered[i].exit # -1

\* C1: every call of _render_node that has returned left the context stack
\* at the depth it found, the stack of a Renderer is never empty, and once
\* render() is over, by returning or by raising, every push has been matched
\* by a pop: the stack holds the base context alone.
C1_ContextStackBalanced ==
    /\ \A i \in 1..Len(entered) : Returned(i) => entered[i].exit = entered[i].depth
    /\ phase \in {"constructed", "rendering", "rendered", "render_raised"}
           => Len(context_stack) >= 1
    /\ phase \in {"rendered", "render_raised"} => Len(context_stack) = 1

\* two calls made by the loop over the children of one node, the first
\* before the second
Siblings(i, j) ==
    /\ i < j
    /\ entered[i].role = "child" /\ entered[j].role = "child"
    /\ entered[i].caller = entered[j].caller

\* C2: of two siblings, the later finds the accumulated transform the
\* earlier found when its walk began.
C2_SiblingsFindSameTransform ==
    \A i, j \in 1..Len(entered) :
        Siblings(i, j) => entered[j].transform = entered[i].transform

\* C3: of two siblings, the later finds the clip region the earlier found
\* (a clip-path restricts only the subtree of its element), and an element
\* that has no clip-path attribute of its own is painted with the clip
\* region it found (the region of an ancestor is not intersected again).
C3_ClipRestrictedToSubtree ==
    /\ \A i, j \in 1..Len(entered) :
           Siblings(i, j) => entered[j].clip_region = entered[i].clip_region
    /\ \A i \in 1..Len(entered) :
           ~Has(nodes[entered[i].node].attributes, "clip-path")
               => entered[i].painted_clip = entered[i].clip_region

\* C4: no exception raised while one element is rendered leaves render().
C4_FailureContained == phase # "render_raised"

\* the background every pixel of a new buffer has
Background ==
    <<params.background_color[1], params.background_color[2],
      params.background_color[3], 255>>

\* C8: when the second Renderer over the same SVGState, constructed with the
\* same arguments, has rendered, its buffer equals the buffer of the first;
\* and the second pass does not raise where the first did not.
C8_SecondPassIdentical ==
    /\ (pass = 2 /\ phase = "rendered") => buffer = first_buffer
    /\ pass = 2 => phase # "render_raised"

\* C8: the second pass has rendered and painted something
C8_Witness ==
    /\ pass = 2
    /\ phase = "rendered"
    /\ \E p \in DOMAIN buffer : buffer[p] # Background

\* a document of a root without viewBox and one <rect> with x, y, width,
\* height and fill, the numbers integers, width and height positive and the
\* fill opaque
PlainRectDocument ==
    /\ Len(nodes) = 2
    /\ DOMAIN nodes[1].attributes \subseteq {"width", "height"}
    /\ nodes[2].tag = "rect"
    /\ DOMAIN nodes[2].attributes = {"x", "y", "width", "height", "fill"}
    /\ \A a \in {"x", "y", "width", "height"} : float_of(nodes[2].attributes[a])[2] = 1
    /\ float_of(nodes[2].attributes["width"])[1] > 0
    /\ float_of(nodes[2].attributes["height"])[1] > 0
    /\ get_node_color(nodes, 2, "fill", "fill-opacity")[4] = 255

\* x <= px < x + width and y <= py < y + height
InsideHalfOpen(p, x, y, w, h) == x <= p[1] /\ p[1] < x + w /\ y <= p[2] /\ p[2] < y + h

\* C9: rendering a plain rectangle document sets exactly the pixels with
\* x <= px < x + width and y <= py < y + height to the fill colour and
\* leaves every other pixel the background colour.
C9_RectPaintsExactlyItsPixels ==
    (phase = "rendered" /\ PlainRectDocument) =>
        \A p \in DOMAIN buffer :
            buffer[p] =
                IF InsideHalfOpen(p, float_of(nodes[2].attributes["x"])[1],
                                  float_of(nodes[2].attributes["y"])[1],
                                  float_of(nodes[2].attributes["width"])[1],
                                  float_of(nodes[2].attributes["height"])[1])
                THEN get_node_color(nodes, 2, "fill", "fill-opacity")
                ELSE Background

(***************************************************************************)
(* Claims about the viewBox mapping.                                       *)
(***************************************************************************)
\* the viewport has been resolved from a root with a viewBox of positive
\* width and height and no preserveAspectRatio attribute
DefaultAspectViewBox ==
    /\ phase \in {"extracted", "validated"}
    /\ svg_tree # None
    /\ viewbox # <<>>
    /\ RLt(R(0), viewbox[3])
    /\ RLt(R(0), viewbox[4])
    /\ ~Has(nodes[svg_tree].attributes, "preserveAspectRatio")

\* min(viewport_width / viewBox width, viewport_height / viewBox height)
MeetScale == RMin(RDiv(viewport_width, viewbox[3]), RDiv(viewport_height, viewbox[4]))

\* C11: with a viewBox and the default preserveAspectRatio both axes are
\* scaled by min(viewport_width / viewBox width, viewport_height / viewBox
\* height), the centre of the viewBox maps to the centre of the viewport,
\* and for viewBox 0 0 100 100 on a 50 by 50 root (50,50) maps to (25,25).
C11_ViewBoxMeetsAndCentres ==
    DefaultAspectViewBox =>
        /\ viewbox_transform.scale_x = MeetScale
        /\ viewbox_transform.scale_y = MeetScale
        /\ transform_point(svg_state, RAdd(viewbox[1], RDiv(viewbox[3], R(2))),
                           RAdd(viewbox[2], RDiv(viewbox[4], R(2))))
               = <<RDiv(viewport_width, R(2)), RDiv(viewport_height, R(2))>>
        /\ (viewbox = <<R(0), R(0), R(100), R(100)>>
                /\ viewport_width = R(50) /\ viewport_height = R(50))
               => transform_point(svg_state, R(50), R(50)) = <<R(25), R(25)>>

\* C11: a root with viewBox 0 0 100 100, width 50 and height 50 has been
\* resolved
C11_Witness ==
    /\ DefaultAspectViewBox
    /\ viewbox = <<R(0), R(0), R(100), R(100)>>
    /\ viewport_width = R(50)
    /\ viewport_height = R(50)

(***************************************************************************)
(* Claims about TransformMatrix.                                           *)
(***************************************************************************)
\* C12: the product A.multiply(B) transforms a point as B followed by A
\* does, and multiplying by the identity on either side gives A.
C12_MultiplyComposes ==
    callee = "multiplied" =>
        /\ matrix_transform_point(result.product, args.p[1], args.p[2])
               = matrix_transform_point(
                     args.A,
                     matrix_transform_point(args.B, args.p[1], args.p[2])[1],
                     matrix_transform_point(args.B, args.p[1], args.p[2])[2])
        /\ result.left = args.A
        /\ result.right = args.A

\* C12: two matrices that do not commute have been multiplied, for a point
\* that is not the origin
C12_Witness ==
    /\ callee = "multiplied"
    /\ multiply(args.A, args.B) # multiply(args.B, args.A)
    /\ args.p # <<R(0), R(0)>>

\* a * d - b * c
Determinant(m) == RSub(RMul(m[1], m[4]), RMul(m[2], m[3]))

\* C13: inverse returns the identity for a matrix whose determinant is
\* (within 1e-10) zero, and otherwise a matrix whose products with the
\* argument, on either side, are the identity.
C13_InverseOrIdentity ==
    callee = "inverted" =>
        IF Determinant(args.A) = R(0) THEN result = identity
        ELSE /\ multiply(result, args.A) = identity
             /\ multiply(args.A, result) = identity

\* C13: inverse has been called on a matrix without a zero entry whose
\* determinant is zero
C13_Witness ==
    /\ callee = "inverted"
    /\ Determinant(args.A) = R(0)
    /\ \A i \in 1..6 : args.A[i] # R(0)

(***************************************************************************)
(* Claims about strokes.                                                   *)
(***************************************************************************)
\* the document is one element with the given tag under the root
OnlyChild(tag) ==
    /\ svg_tree # None
    /\ Len(nodes[svg_tree].children) = 1
    /\ nodes[nodes[svg_tree].children[1]].tag = tag

\* a dashed <line>, the only element of its document, has been rendered
DashedLineRendered ==
    /\ phase = "rendered"
    /\ OnlyChild("line")
    /\ Has(nodes[nodes[svg_tree].children[1]].attributes, "stroke-dasharray")
    /\ nodes[nodes[svg_tree].children[1]].attributes["stroke-dasharray"] # <<NONE>>

\* the positive numbers of a dash list
RECURSIVE PositiveNumbers(_)
PositiveNumbers(parts) ==
    IF parts = <<>> THEN <<>>
    ELSE (IF RLt(R(0), float_of(Head(parts))) THEN <<float_of(Head(parts))>> ELSE <<>>)
         \o PositiveNumbers(Tail(parts))

\* a list of odd length is duplicated
Evened(pattern) == IF Len(pattern) % 2 = 1 THEN pattern \o pattern ELSE pattern

\* the sum of the first k entries
RECURSIVE PrefixSum(_, _)
PrefixSum(pattern, k) == IF k = 0 THEN R(0) ELSE RAdd(PrefixSum(pattern, k - 1), pattern[k])

\* the phase u falls in an on entry: the entries 1, 3, ... counted from 1
InOnEntry(pattern, u) ==
    \E i \in 1..Len(pattern) :
        /\ i % 2 = 1
        /\ RLe(PrefixSum(pattern, i - 1), u)
        /\ RLt(u, PrefixSum(pattern, i))

\* the dash is on at arc length t
DashOn(pattern, dashoffset, t) ==
    InOnEntry(pattern, RMod(RAdd(t, dashoffset), PrefixSum(pattern, Len(pattern))))

\* the pattern and offset of an element, and its ends in pixels
DashOf(n) ==
    [pattern |-> Evened(PositiveNumbers(nodes[n].attributes["stroke-dasharray"])),
     dashoffset |-> IF Has(nodes[n].attributes, "stroke-dashoffset")
                    THEN float_of(nodes[n].attributes["stroke-dashoffset"])
                    ELSE R(0)]

LinePixels(n) ==
    [p1 |-> Point(RInt(float_of(nodes[n].attributes["x1"])),
                  RInt(float_of(nodes[n].attributes["y1"]))),
     p2 |-> Point(RInt(float_of(nodes[n].attributes["x2"])),
                  RInt(float_of(nodes[n].attributes["y2"])))]

\* for an axis-parallel segment from p1 to p2 and the centre of pixel p: the
\* arc length from p1 of the foot of the centre on the line, and the distance
\* of the centre from the line
AlongOf(p1, p2, p) ==
    IF p1.y = p2.y
    THEN (IF p2.x > p1.x THEN RSub(RAdd(R(p[1]), Rat(1, 2)), R(p1.x))
          ELSE RSub(R(p1.x), RAdd(R(p[1]), Rat(1, 2))))
    ELSE (IF p2.y > p1.y THEN RSub(RAdd(R(p[2]), Rat(1, 2)), R(p1.y))
          ELSE RSub(R(p1.y), RAdd(R(p[2]), Rat(1, 2))))

AcrossOf(p1, p2, p) ==
    IF p1.y = p2.y THEN RAbs(RSub(RAdd(R(p[2]), Rat(1, 2)), R(p1.y)))
    ELSE RAbs(RSub(RAdd(R(p[1]), Rat(1, 2)), R(p1.x)))

LengthOf(p1, p2) == IF p1.y = p2.y THEN Abs(p2.x - p1.x) ELSE Abs(p2.y - p1.y)

\* the centre of pixel p lies in the stroke of width 1 of the segment, at an
\* arc length where the dash is on
InDash(p1, p2, dash, start, p) ==
    /\ RLe(AcrossOf(p1, p2, p), Rat(1, 2))
    /\ RLt(R(0), AlongOf(p1, p2, p))
    /\ RLt(AlongOf(p1, p2, p), R(LengthOf(p1, p2)))
    /\ DashOn(dash.pattern, RAdd(dash.dashoffset, R(start)), AlongOf(p1, p2, p))

Painted(p) == buffer[p] # Background

LinePaintedAsDashed(ends, dash) ==
    \A p \in DOMAIN buffer : Painted(p) <=> InDash(ends.p1, ends.p2, dash, 0, p)

\* C14: a dashed straight segment paints the pixel whose centre is at arc
\* length t exactly when (t + dash offset) modulo the total length of the
\* pattern, an odd list being duplicated, falls in an on entry; for the
\* pattern 4,2 without offset on the line from (0,1) to (12,1) the columns
\* 0..3 and 6..9 of row 1 are painted and the columns 4, 5, 10 and 11 are not.
C14_DashPattern ==
    DashedLineRendered =>
        /\ LinePaintedAsDashed(LinePixels(nodes[svg_tree].children[1]),
                               DashOf(nodes[svg_tree].children[1]))
        /\ (/\ LinePixels(nodes[svg_tree].children[1])
                  = [p1 |-> Point(0, 1), p2 |-> Point(12, 1)]
            /\ DashOf(nodes[svg_tree].children[1])
                  = [pattern |-> <<R(4), R(2)>>, dashoffset |-> R(0)])
               => \A p \in DOMAIN buffer :
                      p[2] = 1 => (Painted(p) <=> p[1] \in (0..3) \cup (6..9))

\* C14: the line from (0,1) to (12,1) with the pattern 4,2 and no offset has
\* been rendered into a buffer that holds its whole length
C14_Witness ==
    /\ DashedLineRendered
    /\ LinePixels(nodes[svg_tree].children[1]) = [p1 |-> Point(0, 1), p2 |-> Point(12, 1)]
    /\ DashOf(nodes[svg_tree].children[1])
           = [pattern |-> <<R(4), R(2)>>, dashoffset |-> R(0)]
    /\ width >= 12
    /\ Painted(<<9, 1>>)
    /\ ~Painted(<<10, 1>>)

(***************************************************************************)
(* Claims about the inside test.  A subpath is taken as the closed polygon *)
(* of its points; an edge from a to b is crossed by the ray from (x, y) to *)
(* the right when it passes y, one end counted and the other not, to the   *)
(* right of x.                                                             *)
(***************************************************************************)
\* the subpaths of a point list: the runs of points between the markers
RECURSIVE SubpathsFrom(_, _, _)
SubpathsFrom(points, i, run) ==
    IF i > Len(points) THEN (IF run = <<>> THEN <<>> ELSE <<run>>)
    ELSE IF points[i].dummy
    THEN (IF run = <<>> THEN <<>> ELSE <<run>>) \o SubpathsFrom(points, i + 1, <<>>)
    ELSE SubpathsFrom(points, i + 1, Append(run, points[i]))

Subpaths(points) == SubpathsFrom(points, 1, <<>>)

\* where the line through a and b meets the height y
XAt(a, b, y) == RAdd(R(a.x), Rat((b.x - a.x) * (y - a.y), b.y - a.y))

CrossesUp(a, b, x, y) == a.y <= y /\ y < b.y /\ RLt(R(x), XAt(a, b, y))

CrossesDown(a, b, x, y) == b.y <= y /\ y < a.y /\ RLt(R(x), XAt(a, b, y))

\* the edges of the closed polygon, by the index of their first point
UpCrossings(poly, x, y) ==
    Cardinality({i \in 1..Len(poly) : CrossesUp(poly[i], poly[(i % Len(poly)) + 1], x, y)})

DownCrossings(poly, x, y) ==
    Cardinality({i \in 1..Len(poly) : CrossesDown(poly[i], poly[(i % Len(poly)) + 1], x, y)})

RECURSIVE TotalUp(_, _, _)
TotalUp(polys, x, y) ==
    IF polys = <<>> THEN 0 ELSE UpCrossings(Head(polys), x, y) + TotalUp(Tail(polys), x, y)

RECURSIVE TotalDown(_, _, _)
TotalDown(polys, x, y) ==
    IF polys = <<>> THEN 0
    ELSE DownCrossings(Head(polys), x, y) + TotalDown(Tail(polys), x, y)

\* inside by the parity of the crossings under evenodd, by a non-zero
\* signed count under nonzero
InsideByRule(ups, downs, fill_rule) ==
    IF fill_rule = EVENODD THEN (ups + downs) % 2 = 1 ELSE ups # downs

InsideOfSubpaths(polys, x, y, fill_rule) ==
    InsideByRule(TotalUp(polys, x, y), TotalDown(polys, x, y), fill_rule)

\* C15: for the points of one subpath _point_in_polygon answers by crossing
\* parity under evenodd and by a non-zero winding count under nonzero; the
\* centroid (4,4) of the pentagram is inside under nonzero and outside under
\* evenodd, and the points (4,1), (3,6) and (5,6) of its tips are inside
\* under both.
C15_FillRules ==
    (callee = "tested" /\ Len(Subpaths(result.points)) = 1) =>
        /\ result.inside
               = InsideOfSubpaths(Subpaths(result.points), args.x, args.y, args.fill_rule)
        /\ (args.d = StarPath /\ <<args.x, args.y>> = <<4, 4>>)
               => (result.inside <=> args.fill_rule = NONZERO)
        /\ (args.d = StarPath /\ <<args.x, args.y>> \in {<<4, 1>>, <<3, 6>>, <<5, 6>>})
               => result.inside

\* C15: the centroid of the pentagram has been tested under evenodd and
\* found outside
C15_Witness ==
    /\ callee = "tested"
    /\ args.d = StarPath
    /\ <<args.x, args.y>> = <<4, 4>>
    /\ args.fill_rule = EVENODD
    /\ ~result.inside

\* C17: for the points of a path with any number of subpaths the inside
\* test counts the edges of each subpath and its closing edge only, so its
\* answer is that of the subpaths taken as closed polygons of their own,
\* closed with Z or not.
C17_NoEdgeAcrossMoveTo ==
    callee = "tested" =>
        result.inside
            = InsideOfSubpaths(Subpaths(result.points), args.x, args.y, args.fill_rule)

(***************************************************************************)
(* Claims about path data.                                                 *)
(***************************************************************************)
\* the letter, lower-cased, of the command before a round of S or T: the
\* command itself for a round after its first
Preceding(d, note) == IF note.first THEN LowerChar(d[note.k - 1].cmd) ELSE note.cmd

\* the commands after which S, and T, reflect
Family(cmd) == IF cmd = "s" THEN {"c", "s"} ELSE {"q", "t"}

\* the reflection of the point cp through the point c
Mirror(c, cp) == <<RSub(RMul(R(2), c[1]), cp[1]), RSub(RMul(R(2), c[2]), cp[2])>>

\* C18: a round of S takes as its first control point the reflection of the
\* previous control point through the current point when the command just
\* before was C or S, a round of T when it was Q or T, and after any other
\* command the current point itself.
C18_SmoothReflectsAfterCompatible ==
    callee = "parsed" =>
        \A i \in 1..Len(result.smooth) :
            IF Preceding(args.d, result.smooth[i]) \in Family(result.smooth[i].cmd)
            THEN result.smooth[i].used
                     = Mirror(result.smooth[i].current, result.smooth[i].prev)
            ELSE result.smooth[i].used = result.smooth[i].current

(***************************************************************************)
(* Claims about clip-path references.                                      *)
(***************************************************************************)
\* the id inside "url(#id)"
ClipTargetId(clip_path_str) ==
    lstrip(SubSeq(clip_path_str, 5, Len(clip_path_str) - 1), {"#"})

\* the clip-path of node n is a url(...) whose id names no <clipPath>
DanglingClip(n) ==
    /\ startswith(get_attribute(nodes, n, "clip-path", <<>>, TRUE), <<"u", "r", "l", "(">>)
    /\ ~\E c \in 1..Len(nodes) :
           /\ nodes[c].tag = "clipPath"
           /\ Get(nodes[c].attributes, "id", <<>>)
                  = ClipTargetId(get_attribute(nodes, n, "clip-path", <<>>, TRUE))

\* C16: an element whose clip-path names no clipPath element paints no pixel:
\* the step of _render_node that dispatches on it leaves the buffer as it was.
C16_DanglingClipSkipped ==
    [][(phase = "rendering" /\ frames # <<>> /\ Top.pc = "dispatch"
            /\ DanglingClip(Top.node))
        => buffer' = buffer]_vars

\* a dashed <polyline> or <path>, the only element of its document, has been
\* rendered
DashedStrokeRendered ==
    /\ phase = "rendered"
    /\ OnlyChild("polyline") \/ OnlyChild("path")
    /\ Has(nodes[nodes[svg_tree].children[1]].attributes, "stroke-dasharray")
    /\ nodes[nodes[svg_tree].children[1]].attributes["stroke-dasharray"] # <<NONE>>

\* the vertices of the element in pixels: the pairs of the points of a
\* <polyline>, the pairs of the M and L commands of a <path>
VerticesOf(n) ==
    IF nodes[n].tag = "polyline"
    THEN [i \in 1..(Len(nodes[n].attributes["points"]) \div 2) |->
             Point(RInt(float_of(nodes[n].attributes["points"][2 * i - 1])),
                   RInt(float_of(nodes[n].attributes["points"][2 * i])))]
    ELSE [i \in 1..Len(nodes[n].attributes["d"]) |->
             Point(RInt(float_of(nodes[n].attributes["d"][i].numbers[1])),
                   RInt(float_of(nodes[n].attributes["d"][i].numbers[2])))]

\* the total length of the segments before segment k
RECURSIVE LengthBefore(_, _)
LengthBefore(vs, k) ==
    IF k = 1 THEN 0 ELSE LengthBefore(vs, k - 1) + LengthOf(vs[k - 1], vs[k])

\* the centre of pixel p is less than a pixel away, in both directions, from
\* a vertex, where caps and joins are drawn
NearVertex(vs, p) ==
    \E i \in 1..Len(vs) :
        /\ RLt(RAbs(RSub(RAdd(R(p[1]), Rat(1, 2)), R(vs[i].x))), R(1))
        /\ RLt(RAbs(RSub(RAdd(R(p[2]), Rat(1, 2)), R(vs[i].y))), R(1))

StrokePaintedAsDashed(vs, dash) ==
    \A p \in DOMAIN buffer :
        ~NearVertex(vs, p) =>
            (Painted(p) <=>
                \E k \in 1..(Len(vs) - 1) :
                    InDash(vs[k], vs[k + 1], dash, LengthBefore(vs, k), p))

\* C19: along a dashed polyline or path of several segments the pixel whose
\* centre is at arc length t of segment k is painted exactly when
\* (t + stroke-dashoffset + the length of the segments before k) modulo the
\* total length of the pattern falls in an on entry: the pattern goes on
\* across the vertices.
C19_DashPhaseCarried ==
    DashedStrokeRendered =>
        StrokePaintedAsDashed(VerticesOf(nodes[svg_tree].children[1]),
                              DashOf(nodes[svg_tree].children[1]))

\* call j was made by the loop over the children of the node of call i, an
\* element other than <g> that carries a transform attribute
ChildOfTransformed(i, j) ==
    /\ entered[j].role = "child"
    /\ entered[j].caller = i
    /\ nodes[entered[i].node].tag # "g"
    /\ Has(nodes[entered[i].node].attributes, "transform")

\* C20: the context pushed for an element other than <g> with a transform is
\* still on the stack when its children are walked: a child finds the stack
\* one deeper than its parent found it, and finds the parent's accumulated
\* transform with the parent's own transform applied.
C20_PushedContextCoversChildren ==
    \A i, j \in 1..Len(entered) :
        ChildOfTransformed(i, j) =>
            /\ entered[j].depth = entered[i].depth + 1
            /\ entered[j].transform
                   = apply_transform(entered[i].transform,
                                     nodes[entered[i].node].attributes["transform"]).transform

(***************************************************************************)
(* Claims about the pixel writes.                                          *)
(***************************************************************************)
\* the pixel lies inside the region: inside the rectangle, inside the
\* polygon by the region's own rule, inside every member of an intersection
RECURSIVE Admits(_, _)
Admits(region, p) ==
    CASE region.type = "none" -> TRUE
      [] region.type = "rect" ->
             /\ region.bounds[1] <= p[1] /\ p[1] < region.bounds[1] + region.bounds[3]
             /\ region.bounds[2] <= p[2] /\ p[2] < region.bounds[2] + region.bounds[4]
      [] region.type = "polygon" ->
             point_in_polygon(p[1], p[2], region.points, region.rule)
      [] region.type = "intersection" ->
             \A i \in 1..Len(region.regions) : Admits(region.regions[i], p)

\* C21: a step of the tree walk changes only pixels of
\* [0, width) x [0, height) that the clip region of the current context
\* admits: a pixel outside the buffer or rejected by the region is never
\* modified, and under an intersection region only a pixel inside every
\* member region is written.
C21_WritesAreGated ==
    [][(phase = "rendering" /\ phase' = "rendering") =>
           /\ DOMAIN buffer' = (0..(width - 1)) \X (0..(height - 1))
           /\ \A p \in DOMAIN buffer :
                  buffer'[p] # buffer[p] => Admits(Current.clip_region, p)]_vars

\* C21: a shape has been painted under an intersection region, and a pixel
\* of the buffer that the region rejects was in its way
C21_Witness ==
    /\ phase = "rendering"
    /\ Current.clip_region.type = "intersection"
    /\ nodes[Top.node].tag = "rect"
    /\ Top.pc = "children"
    /\ \E p \in DOMAIN buffer : buffer[p] # Background /\ Admits(Current.clip_region, p)
    /\ \E p \in DOMAIN buffer : buffer[p] = Background /\ ~Admits(Current.clip_region, p)

(***************************************************************************)
(* Claims about the flattening of curves.                                  *)
(***************************************************************************)
\* a flattening has returned
Flattened == callee \in {"subdivide_cubic_bezier", "subdivide_quadratic_bezier"}

\* C22: a flattening returns; no call of its inner subdivide is made at a
\* depth beyond the cap of 10; the polyline returned starts at the first
\* control point and ends at the last.
C22_FlatteningWithinCap ==
    Flattened =>
        /\ result.depth <= 10
        /\ result.points[1] = args[1]
        /\ result.points[Len(result.points)] = args[Len(args)]

(***************************************************************************)
(* Claims about the tree parse_svg_contents builds.                        *)
(***************************************************************************)
\* the fragments whose tag is svg
SvgFragments == {i \in 1..Len(entries) : get_tag(entries[i]) = "svg"}

\* the places (parent, position) at which node n is listed as a child
Places(n) ==
    {<<m, i>> \in (1..Len(nodes)) \X (1..MaxFrags) :
        i <= Len(nodes[m].children) /\ nodes[m].children[i] = n}

\* there is no root, or node 1 is the only node without a parent and was made
\* from the first svg fragment
OneRoot ==
    /\ svg_tree \in {None, 1}
    /\ svg_tree = None => nodes = <<>>
    /\ svg_tree = 1 =>
           /\ SvgFragments # {}
           /\ nodes[1].parent = None
           /\ nodes[1].tag = "svg"
           /\ nodes[1].attributes = parse_attributes(entries[SetMin(SvgFragments)])
           /\ Places(1) = {}
    /\ phase = "parsed" => (svg_tree = None <=> SvgFragments = {})

\* every other node is listed once, by its parent
OneParent ==
    \A n \in 2..Len(nodes) :
        /\ nodes[n].parent \in 1..Len(nodes)
        /\ Cardinality(Places(n)) = 1
        /\ \E i \in 1..MaxFrags : Places(n) = {<<nodes[n].parent, i>>}

\* a step that changes the tree adds the node of the fragment it consumes
\* as the last child of the node under the cursor
AddsLastChild ==
    (nodes # <<>> /\ nodes' # nodes) =>
        /\ r # None
        /\ pos' = pos + 1
        /\ nodes' = Append([nodes EXCEPT ![r].children = Append(@, Len(nodes) + 1)],
                           [Node(NextEntry) EXCEPT !.parent = r])

\* a self-closing fragment met under a cursor adds a node and the cursor stays
SelfClosingKeepsCursor ==
    (/\ phase = "body" /\ pos < Len(entries) /\ r # None
     /\ is_self_terminating(NextEntry) /\ ~is_terminator(NextEntry)) =>
        /\ Len(nodes') = Len(nodes) + 1
        /\ r' = r

\* once the cursor has left the root nothing is added
AfterRootIgnored ==
    (svg_tree # None /\ r = None) =>
        /\ nodes' = nodes
        /\ r' = None
        /\ svg_tree' = svg_tree
        /\ metadata' = metadata

\* C23: the tree parse_svg_contents builds is well-formed at every step and
\* when it returns: at most one root, made from the first svg fragment;
\* every other node has one parent and is listed once, in that parent's
\* children; a node is appended after its earlier siblings, so children are
\* in fragment order; a self-closing fragment adds a child and the cursor
\* stays; after the root was closed no fragment changes the tree.
C23_TreeWellFormed ==
    /\ [](OneRoot /\ OneParent)
    /\ [][AddsLastChild /\ SelfClosingKeepsCursor /\ AfterRootIgnored]_vars

\* C23: parse_svg_contents has returned a closed root with two children,
\* the first of them made from a self-closing fragment
C23_Witness ==
    /\ phase = "parsed"
    /\ svg_tree # None
    /\ r = None
    /\ Len(nodes[svg_tree].children) = 2
    /\ is_self_terminating(entries[2])
    /\ nodes[svg_tree].children = <<2, 3>>

(***************************************************************************)
(* Claims about the transform attribute.                                   *)
(***************************************************************************)
\* what one transform function does to a point: translate adds, scale
\* multiplies (one number scales both coordinates, a missing ty is 0),
\* matrix(a b c d e f) gives (a x + c y + e, b x + d y + f)
Moved(f, ps, p) ==
    CASE f = "translate" ->
             <<RAdd(p[1], ps[1]), RAdd(p[2], IF Len(ps) > 1 THEN ps[2] ELSE R(0))>>
      [] f = "scale" ->
             <<RMul(ps[1], p[1]), RMul(IF Len(ps) > 1 THEN ps[2] ELSE ps[1], p[2])>>
      [] f = "matrix" ->
             <<RAdd(RAdd(RMul(ps[1], p[1]), RMul(ps[3], p[2])), ps[5]),
               RAdd(RAdd(RMul(ps[2], p[1]), RMul(ps[4], p[2])), ps[6])>>

\* the point after the functions of a list, the rightmost acting first
RECURSIVE Through(_, _)
Through(fs, p) ==
    IF fs = <<>> THEN p
    ELSE Moved(Head(fs).func_name, FloatParams(Head(fs).params), Through(Tail(fs), p))

\* C24: the matrix apply_transform leaves maps a point as the matrix it found
\* maps the point the functions of the list give, the rightmost function
\* acting on the point first (each function right-multiplies the accumulated
\* matrix); after translate(2 1) scale(3) on the identity a point p goes to
\* 3 p + (2, 1); an empty list leaves the matrix unchanged.
C24_LeftToRightRightMultiplied ==
    callee = "applied" =>
        /\ ~result.raised
        /\ \A p \in MatrixPoints :
               matrix_transform_point(result.transform, p[1], p[2])
                   = matrix_transform_point(args.transform,
                                            Through(args.transform_str, p)[1],
                                            Through(args.transform_str, p)[2])
        /\ (/\ args.transform = identity
            /\ args.transform_str = <<Transform("translate", <<Str("2"), Str("1")>>),
                                      Transform("scale", <<Str("3")>>)>>) =>
               \A p \in MatrixPoints :
                   matrix_transform_point(result.transform, p[1], p[2])
                       = <<RAdd(RMul(R(3), p[1]), R(2)), RAdd(RMul(R(3), p[2]), R(1))>>
        /\ args.transform_str = <<>> => result.transform = args.transform

\* C24: translate(2 1) scale(3) was applied to the identity, and the point
\* (1, 2) goes to (5, 7), not to the (9, 9) of the other order
C24_Witness ==
    /\ callee = "applied"
    /\ args.transform = identity
    /\ args.transform_str = <<Transform("translate", <<Str("2"), Str("1")>>),
                              Transform("scale", <<Str("3")>>)>>
    /\ matrix_transform_point(result.transform, R(1), R(2)) = <<R(5), R(7)>>

(***************************************************************************)
(* Claims about colours.                                                   *)
(***************************************************************************)
\* the text is "#" and three, six or eight hexadecimal digits
ValidHex(text) ==
    /\ Len(text) \in {4, 7, 9}
    /\ text[1] = "#"
    /\ \A i \in 2..Len(text) : text[i] \in HexDigits

\* the colour a valid hexadecimal text stands for
HexValue(text) ==
    IF Len(text) = 4
    THEN <<17 * HexVal(text[2]), 17 * HexVal(text[3]), 17 * HexVal(text[4])>>
    ELSE <<16 * HexVal(text[2]) + HexVal(text[3]), 16 * HexVal(text[4]) + HexVal(text[5]),
           16 * HexVal(text[6]) + HexVal(text[7])>>

\* the colour of a text, lower-cased and without the white space around it:
\* the table value of a name, the value of a valid hexadecimal text, black
\* for every other text
ColourOf(text) ==
    IF text \in DOMAIN NAMED_COLORS THEN NAMED_COLORS[text]
    ELSE IF ValidHex(text) THEN HexValue(text)
    ELSE <<0, 0, 0>>

\* C25: for a text that is not empty and not none, parse_color does not
\* raise and returns the table value of a named colour, the value of a valid
\* hexadecimal text of 3, 6 or 8 digits, and black for every other text, a
\* "#" text with a character that is no hexadecimal digit among them.
C25_ParseColorTotal ==
    callee = "parsed_color" =>
        /\ result # Raised
        /\ result = ColourOf(Lower(strip(args)))

(***************************************************************************)
(* Claims about the construction of a Renderer.                            *)
(***************************************************************************)
\* C26: constructing a Renderer without a width and without a height leaves
\* the viewport width and height and the viewBox scale and offsets of the
\* SVGState as they were, whatever the viewport size of the document.
C26_ConstructionKeepsState ==
    [][(phase = "validated" /\ phase' = "constructed"
        /\ params.width = 0 /\ params.height = 0) =>
           UNCHANGED <<viewport_width, viewport_height, viewbox_transform>>]_vars

(***************************************************************************)
(* Claims about opacity.                                                   *)
(***************************************************************************)
\* a document of a root and one <rect> at the origin that carries opacity
\* and fill-opacity, both numbers in [0, 1], and no transform or clip-path
OpacityRectDocument ==
    /\ Len(nodes) = 2
    /\ nodes[2].tag = "rect"
    /\ {"opacity", "fill-opacity", "fill"} \subseteq DOMAIN nodes[2].attributes
    /\ DOMAIN nodes[2].attributes \subseteq {"opacity", "fill-opacity", "fill", "width", "height"}
    /\ ~Has(nodes[1].attributes, "viewBox")

\* 255 * o * f, truncated, for the opacity and fill-opacity of node n
AlphaOnce(n) ==
    RInt(RMul(R(255), RMul(float_of(nodes[n].attributes["opacity"]),
                           float_of(nodes[n].attributes["fill-opacity"]))))

\* C27: the fill of an element with opacity o and fill-opacity f is
\* composited with alpha 255 * o * f, truncated, each factor entering once:
\* the pixel at the origin of a rendered opacity rectangle document is the
\* fill colour with that alpha over the background (alpha 127 for red with
\* opacity 0.5 and fill-opacity 1).
C27_OpacityEntersOnce ==
    (phase = "rendered" /\ OpacityRectDocument) =>
        buffer[<<0, 0>>] =
            blend_colors(<<parse_color(nodes[2].attributes["fill"], nodes, 2)[1],
                           parse_color(nodes[2].attributes["fill"], nodes, 2)[2],
                           parse_color(nodes[2].attributes["fill"], nodes, 2)[3],
                           AlphaOnce(2)>>, Background)

(***************************************************************************)
(* Claims about the termination of render().                               *)
(***************************************************************************)
\* C28: render() terminates on every finite document tree, one with a <use>
\* that references itself, an ancestor or a <use> referencing it back
\* included: the nesting of _render_node never grows until the
\* interpreter's recursion limit ends the walk with RecursionError.
C28_RenderTerminates == phase # "recursion_error"

(***************************************************************************)
(* Claims about units.                                                     *)
(***************************************************************************)
\* what normalize_unit gives for the number of the call with another suffix
WithUnit(unit) ==
    normalize_unit(args.number \o unit, args.unit_type, args.viewport_width,
                   args.viewport_height)

\* C29: normalize_unit returns a number for every value text; the unit
\* suffix is matched without regard to letter case, so a value gives what
\* the same number with the lower-cased suffix gives; and a value with the
\* ex unit in any letter case gives half of what the same number with the
\* em unit gives.
C29_UnitsAnyCase ==
    callee = "normalized" =>
        /\ IsNum(result)
        /\ result = WithUnit(Lower(args.unit))
        /\ Lower(args.unit) = <<"e", "x">> =>
               /\ IsNum(WithUnit(<<"e", "m">>))
               /\ result = RMul(Rat(1, 2), WithUnit(<<"e", "m">>))

(***************************************************************************)
(* Claims about clipPath definitions.                                      *)
(***************************************************************************)
\* the elements the tree walk draws
DrawnTags == {"rect", "circle", "ellipse", "line", "polyline", "path", "use"}

\* every shape of the document is a child of a clipPath, and no element
\* carries a clip-path attribute
OnlyUnusedClipShapes ==
    /\ \E n \in 1..Len(nodes) : nodes[n].tag \in DrawnTags
    /\ \A n \in 1..Len(nodes) :
           /\ ~Has(nodes[n].attributes, "clip-path")
           /\ nodes[n].tag \in DrawnTags =>
                  /\ nodes[n].parent # None
                  /\ nodes[nodes[n].parent].tag = "clipPath"

\* C30: the children of a clipPath are never rasterized as ordinary shapes:
\* a rendered document whose only shapes sit inside a clipPath that nothing
\* references is pure background.
C30_ClipChildrenNotDrawn ==
    (phase = "rendered" /\ OnlyUnusedClipShapes) =>
        \A p \in DOMAIN buffer : buffer[p] = Background

====
